---- MODULE Spec2Model ----
(***************************************************************************)
(* PDFKatana: the document partition + validate/repair pipeline.           *)
(*                                                                         *)
(*   src/src/app/core/validator.py   PDFValidator, validate_pdf_for_...    *)
(*   src/src/app/core/splitter.py    split_pdf, validate_and_repair_pdf    *)
(*   src/src/app/api/routes/split.py the /v1/split and /v1/split-into-zip  *)
(*                                   request handlers                      *)
(*                                                                         *)
(*   src/src/app/core/sweeper.py     cleanup_temp_files                    *)
(*                                                                         *)
(* The specifications share the variables below:                           *)
(*   SpecValidator  validate_pdf_structure, comprehensive_validation or    *)
(*                  repair_pdf applied to a bounded document               *)
(*   SpecSplit      split_pdf, one part per step                           *)
(*   Spec           one request through an endpoint of routes/split.py     *)
(*   SpecLive       Spec with the handler and its background task run to   *)
(*                  their end                                              *)
(*   SpecSweeper    one run of cleanup_temp_files                          *)
(***************************************************************************)
EXTENDS Integers, Sequences, FiniteSets, TLC

VARIABLES
    v_pc,          \* validator run: "start" | "done" | "reported" |
                   \* "reported_only" | "repaired"
    v_buffer,      \* the document held by the buffer under validation
    v_result,      \* (is_valid, issues) returned by validate_pdf_structure
    v_report,      \* the dict returned by comprehensive_validation
    v_repair,      \* (repaired_buffer, success, repair_notes) returned by repair_pdf
    s_pc,          \* split_pdf: "open" | "assemble" | "returned" | "raised"
    s_pdf,         \* the document at input_path
    s_split_pages, \* the split_pages argument (1-based pages, as requested)
    s_fault,       \* what fails in this run: "none" | "save" | "xmp" | "meta" | "both"
    s_ranges,      \* ranges
    s_idx,         \* the loop index of `for idx, (start, end) in enumerate(ranges)`
    s_output_parts, \* output_parts
    r_pc,          \* request: "received" | "validated" | "saved" | "parsed" |
                   \*          "deliver" | "done"
    r_endpoint,    \* "split" (/v1/split) | "zip" (/v1/split-into-zip) |
                   \* "validate" (/v1/validate-pdf)
    r_contents,    \* the uploaded document (the bytes of `file`)
    r_size,        \* len(contents)
    r_pages,       \* the `pages` form field
    r_fault,       \* what fails in this request: "none" | "validation" | "save" | "xmp"
    r_left_at,     \* where a pikepdf.open leaves the read position of the stream
                   \* it was given: "start" | "inside" | "end"
    r_repaired_contents, \* repaired_contents
    r_validation_info,   \* validation_info
    r_tmp,         \* content of the file at tmp_path (NoBuffer: no such file)
    r_should_split, \* should_split
    r_split_pages, \* split_pages
    r_splitter_ran, \* split_pdf has been called
    r_parts,       \* parts
    r_bg_tasks,    \* background_tasks: the tasks added, run after the response
    r_response,    \* the response
    c_pc,          \* cleanup_temp_files: "start" | "scan" | "done"
    c_exists,      \* os.path.exists(TEMP_DIR)
    c_fault,       \* what raises outside the loop: "none" | "exists" | "listdir"
    c_now,         \* time.time(), in seconds
    c_listing,     \* os.listdir(TEMP_DIR): the entries, in listing order
    c_present,     \* the names now in TEMP_DIR
    c_idx,         \* how many entries of the listing the loop has handled
    c_deleted_count, \* deleted_count
    a_clock,       \* the service: time.time(), in seconds
    a_startup,     \* the task created by startup_event: "pending" | "done"
    a_dir,         \* the files in the temp directory, as (name, mtime)
    a_req,         \* per request to /v1/split: where its handler is, when it
                   \* wrote its temp file, and whether split_pdf found the file
    q_pc,          \* schema construction: "start" | "done"
    q_input,       \* the value given to the model class
    q_result       \* the object constructed, or the error raised

vvars == <<v_pc, v_buffer, v_result, v_report, v_repair>>
svars == <<s_pc, s_pdf, s_split_pages, s_fault, s_ranges, s_idx, s_output_parts>>
rinput == <<r_endpoint, r_contents, r_size, r_pages, r_fault, r_left_at>>
rvars == <<r_pc, rinput, r_repaired_contents, r_validation_info, r_tmp,
           r_should_split, r_split_pages, r_splitter_ran, r_parts, r_bg_tasks,
           r_response>>
cvars == <<c_pc, c_exists, c_fault, c_now, c_listing, c_present, c_idx,
           c_deleted_count>>

avars == <<a_clock, a_startup, a_dir, a_req>>
qvars == <<q_pc, q_input, q_result>>

vars == <<vvars, svars, rvars, cvars, avars, qvars>>

(***************************************************************************)
(* Text.  A Python str is modelled as the sequence of its words, with      *)
(* punctuation as words of their own, so that `kw in s.lower()` is a       *)
(* contiguous-subsequence test after a word-wise lower().                  *)
(***************************************************************************)
LowerWord(w) ==
    CASE w = "PDF" -> "pdf"
      [] w = "Page" -> "page"
      [] w = "Metadata" -> "metadata"
      [] w = "Document" -> "document"
      [] w = "Contents" -> "contents"
      [] w = "Object" -> "object"
      [] w = "Dictionary" -> "dictionary"
      [] w = "Stream" -> "stream"
      [] w = "Title" -> "title"
      [] w = "Author" -> "author"
      [] w = "Invalid" -> "invalid"
      [] w = "Dimensions" -> "dimensions"
      [] w = "Has" -> "has"
      [] w = "No" -> "no"
      [] w = "Pages" -> "pages"
      [] OTHER -> w

lower(s) == [i \in 1..Len(s) |-> LowerWord(s[i])]

\* Python's `kw in s`
Contains(s, kw) ==
    \E i \in 0..(Len(s) - Len(kw)) : SubSeq(s, i + 1, i + Len(kw)) = kw

\* the element of a one-element set; The({F(x) : x \in {e}}) is F applied to
\* the value of e, as a Python call evaluates its argument once
The(S) == CHOOSE r \in S : TRUE

RECURSIVE Concat(_)
Concat(ss) == IF Len(ss) = 0 THEN <<>> ELSE Head(ss) \o Concat(Tail(ss))

(***************************************************************************)
(* Documents as pikepdf presents them to this code.                        *)
(*   page.mediabox   <<>> for None, else the array <<llx, lly, urx, ury>>  *)
(*   page.fault      where inspecting the page raises ("none" if nowhere)  *)
(*   docinfo         sequence of (key, value); a value is a str of a given *)
(*                   length or a non-str object                            *)
(***************************************************************************)
None == <<>>

Width(mediabox) == mediabox[3] - mediabox[1]
Height(mediabox) == mediabox[4] - mediabox[2]

BenignMsg == <<"Object", "is", "not", "a", "Dictionary", "or", "Stream">>
OtherMsg == <<"unexpected", "error">>

PageNo(i) == ToString(i)

\* validator.py 42, with `<=` weakened to `<`
InvalidDimensionsStrict(width, height) == width < 0 \/ height < 0

\* validator.py 42
InvalidDimensions(width, height) == width <= 0 \/ height <= 0

\* validator.py 17-110: the issues one page adds, in order
PageIssues(i, page) ==
    LET raised(msg) ==
            IF Contains(msg, BenignMsg) THEN <<>>
            ELSE << <<"Page", PageNo(i), "validation", "failed", ":">> \o msg >>
    IN  IF page.fault = "mediabox" THEN raised(page.fault_msg)
        ELSE IF page.mediabox = None
        THEN << <<"Page", PageNo(i), "has", "no", "mediabox">> >>
        ELSE IF page.fault = "dimensions" THEN raised(page.fault_msg)
        ELSE
          LET width == Width(page.mediabox)
              height == Height(page.mediabox)
              dims == IF InvalidDimensions(width, height)
                      THEN << <<"Page", PageNo(i), "has", "invalid", "dimensions",
                                ":", ToString(width), "x", ToString(height)>> >>
                      ELSE <<>>
              rot == IF page.rotation \notin {0, 90, 180, 270}
                     THEN << <<"Page", PageNo(i), "has", "invalid", "rotation",
                               ":", ToString(page.rotation)>> >>
                     ELSE <<>>
              cont == IF page.contents = "inaccessible"
                      THEN << <<"Page", PageNo(i), "has", "inaccessible",
                                "Contents", "object">> >>
                      ELSE <<>>
          IN  IF page.fault = "rotation" THEN dims \o raised(page.fault_msg)
              ELSE dims \o rot \o cont

\* validator.py 84-95: the metadata check
DocinfoIssues(doc) ==
    IF doc.docinfo_fault
    THEN << <<"Document", "info", "validation", "failed", ":">> \o OtherMsg >>
    ELSE Concat([k \in 1..Len(doc.docinfo) |->
            LET key == doc.docinfo[k].key
                value == doc.docinfo[k].value
            IN  IF value.is_str /\ value.len > 10000
                THEN << <<"Metadata", "field", "'">> \o key \o
                        <<"'", "is", "unusually", "long", "(",
                          ToString(value.len), "chars", ")">> >>
                ELSE <<>>])

\* validator.py 97-99
EncryptionIssues(doc) ==
    IF doc.is_encrypted
    THEN << <<"PDF", "is", "encrypted", "(", "may", "cause", "compatibility",
              "issues", ")">> >>
    ELSE <<>>

\* validator.py 116-124
CriticalKeywords ==
    { <<"has", "no", "pages">>, <<"has", "no", "mediabox">>,
      <<"invalid", "dimensions">>, <<"could", "not", "repair">> }

\* validator.py 112-127
IsCritical(issue) == \E kw \in CriticalKeywords : Contains(lower(issue), kw)

Verdict(issues) == \A k \in 1..Len(issues) : ~IsCritical(issues[k])

\* validator.py 84-127: the issues found in an opened document with pages
DocumentIssues(doc) ==
    Concat([i \in 1..Len(doc.pages) |-> PageIssues(i, doc.pages[i])])
    \o DocinfoIssues(doc) \o EncryptionIssues(doc)

\* validator.py 127
StructureResult(issues) == [is_valid |-> Verdict(issues), issues |-> issues]

\* validator.py 10-127: PDFValidator.validate_pdf_structure
validate_pdf_structure(doc) ==
    IF ~doc.openable
    THEN [is_valid |-> FALSE,
          issues |-> << <<"PDF", "structure", "validation", "failed", ":">>
                        \o OtherMsg >>]
    ELSE IF ~doc.has_pages_attr
    THEN [is_valid |-> FALSE,
          issues |-> << <<"PDF", "has", "no", "pages", "attribute">> >>]
    ELSE IF Len(doc.pages) = 0
    THEN [is_valid |-> FALSE, issues |-> << <<"PDF", "has", "no", "pages">> >>]
    ELSE The({StructureResult(issues) : issues \in {DocumentIssues(doc)}})

(***************************************************************************)
(* Repair and the combined validation (validator.py 129-344).              *)
(***************************************************************************)
A4 == <<0, 0, 595, 842>>

RepairFailedMsg == <<"Repair", "failed", ":">> \o OtherMsg

\* validator.py 144-167, the fallback copy losing the page
RepairPageDropFallback(i, page) ==
    IF page.copy_fault = "none" /\ page.fault # "mediabox"
    THEN IF page.mediabox = None
         THEN [pages |-> << [page EXCEPT !.mediabox = A4] >>,
               notes |-> << <<"Page", PageNo(i), ":", "Created", "default",
                              "mediabox">> >>]
         ELSE [pages |-> <<page>>, notes |-> <<>>]
    ELSE [pages |-> <<>>,
          notes |-> << <<"Page", PageNo(i), ":", "Used", "fallback", "copy",
                         "method">> >>]

\* validator.py 144-167: what repairing source page i appends:
\* the pages added to the repaired document and the notes recorded
RepairPage(i, page) ==
    IF page.copy_fault = "none" /\ page.fault # "mediabox"
    THEN IF page.mediabox = None
         THEN [pages |-> << [page EXCEPT !.mediabox = A4] >>,
               notes |-> << <<"Page", PageNo(i), ":", "Created", "default",
                              "mediabox">> >>]
         ELSE [pages |-> <<page>>, notes |-> <<>>]
    ELSE IF page.copy_fault # "both"
    THEN [pages |-> <<page>>,
          notes |-> << <<"Page", PageNo(i), ":", "Used", "fallback", "copy",
                         "method">> >>]
    ELSE [pages |-> <<>>,
          notes |-> << <<"Page", PageNo(i), ":", "Could", "not", "repair", ",",
                         "skipping", ":">> \o OtherMsg \o <<"/">> \o OtherMsg >>]

\* validator.py 171
SafeFields == {<<"Title">>, <<"Author">>, <<"Subject">>, <<"Creator">>, <<"Producer">>}

\* validator.py 169-178
RepairDocinfo(doc) ==
    SelectSeq(doc.docinfo,
              LAMBDA e : e.key \in SafeFields /\ e.value.is_str /\ e.value.len < 1000)

\* validator.py 144-178: repair_notes when the reconstruction is about to be saved
NotesBeforeSave(doc, per) ==
    Concat([i \in 1..Len(per) |-> per[i].notes]) \o
    (IF doc.docinfo_fault
     THEN << <<"Could", "not", "copy", "metadata">> >>
     ELSE <<>>)

\* validator.py 141-185: the reconstruction, from what each page contributed
Repaired(doc, per) ==
    [buffer |->
         [openable |-> TRUE,
          has_pages_attr |-> TRUE,
          save_fault |-> FALSE,
          pages |-> Concat([i \in 1..Len(per) |-> per[i].pages]),
          docinfo |-> IF doc.docinfo_fault THEN <<>> ELSE RepairDocinfo(doc),
          docinfo_fault |-> FALSE,
          xmp_keywords |-> <<>>,
          is_encrypted |-> FALSE,
          pdf_version |-> "1.3"],
     success |-> TRUE,
     notes |-> NotesBeforeSave(doc, per),
     position |-> 0]

\* validator.py 187-190, without the note of the failure
RepairFailureNoNote(doc, notes) ==
    [buffer |-> doc, success |-> FALSE, notes |-> notes, position |-> 0]

\* validator.py 187-190: the except branch; `notes` are those recorded so far
RepairFailure(doc, notes) ==
    [buffer |-> doc, success |-> FALSE,
     notes |-> Append(notes, RepairFailedMsg), position |-> 0]

\* validator.py 139-185 on a document that opened
RepairOpened(doc, per) ==
    IF doc.save_fault
    THEN RepairFailure(doc, NotesBeforeSave(doc, per))
    ELSE Repaired(doc, per)

\* validator.py 129-190: PDFValidator.repair_pdf
repair_pdf(doc) ==
    IF ~doc.openable
    THEN RepairFailure(doc, <<>>)
    ELSE The({RepairOpened(doc, per) :
                per \in {[i \in 1..Len(doc.pages) |-> RepairPage(i, doc.pages[i])]}})

NoBuffer == <<>>

\* validator.py 227-228, whatever the verdict
NeedsRepairAnyIssue(is_valid, issues) == Len(issues) > 0

\* validator.py 227-228
NeedsRepair(is_valid, issues) == ~is_valid /\ Len(issues) > 0

\* validator.py 218
OldVersion(version) == version \in {"1.0", "1.1", "1.2", "1.3"}

\* len(buffer.getvalue()): the bytes counted are the document's own
ByteSize(doc) == doc

\* validator.py 199-241: the result before any repair
FirstResult(doc, first) ==
    [is_valid |-> first.is_valid,
     file_size_bytes |-> ByteSize(doc),
     page_count |-> IF doc.openable THEN Len(doc.pages) ELSE 0,
     issues |-> first.issues,
     info_warnings |->
         IF doc.openable /\ OldVersion(doc.pdf_version)
         THEN << <<"PDF", "version", doc.pdf_version, "is", "old">> >>
         ELSE <<>>,
     needs_repair |-> NeedsRepair(first.is_valid, first.issues),
     repair_attempted |-> FALSE,
     repair_successful |-> FALSE,
     repair_notes |-> <<>>,
     repaired_buffer |-> NoBuffer]

\* validator.py 250-259, keeping the verdict and issues of the first pass
AfterRepairKeepVerdict(result, rep, again) ==
    [result EXCEPT !.repair_attempted = TRUE,
                   !.repair_successful = TRUE,
                   !.repair_notes = rep.notes,
                   !.repaired_buffer = rep.buffer,
                   !.file_size_bytes = ByteSize(rep.buffer)]

\* validator.py 250-259: the repaired version is validated again
AfterRepair(result, rep, again) ==
    [result EXCEPT !.repair_attempted = TRUE,
                   !.repair_successful = TRUE,
                   !.repair_notes = rep.notes,
                   !.repaired_buffer = rep.buffer,
                   !.is_valid = again.is_valid,
                   !.issues = again.issues,
                   !.file_size_bytes = ByteSize(rep.buffer)]

\* validator.py 244-259
WithRepair(result, rep) ==
    IF rep.success
    THEN The({AfterRepair(result, rep, again) :
                again \in {validate_pdf_structure(rep.buffer)}})
    ELSE [result EXCEPT !.repair_attempted = TRUE,
                        !.repair_notes = rep.notes]

\* validator.py 243-261
RepairIfNeeded(doc, include_repair, result) ==
    IF result.needs_repair /\ include_repair
    THEN The({WithRepair(result, rep) : rep \in {repair_pdf(doc)}})
    ELSE result

\* validator.py 192-261: PDFValidator.comprehensive_validation
comprehensive_validation(doc, include_repair) ==
    The({RepairIfNeeded(doc, include_repair, result) :
            result \in {FirstResult(doc, first) :
                           first \in {validate_pdf_structure(doc)}}})

\* validator.py 18-20, 137-139, 189, 199-212: whether pdf_buffer is at
\* position 0 once comprehensive_validation has returned. Every pikepdf.open
\* on it is preceded by seek(0) and followed by none; the one seek(0) that
\* nothing reads after is that of a failed repair (189)
InputRewound(validation_result) ==
    validation_result.repair_attempted /\ ~validation_result.repair_successful

\* validator.py 322-341; rewound says whether the returned buffer is at
\* position 0 (326 for the repaired buffer)
PaperlessResult(doc, validation_result) ==
    IF validation_result.is_valid
    THEN IF validation_result.repair_successful
            /\ validation_result.repaired_buffer # NoBuffer
         THEN [buffer |-> validation_result.repaired_buffer, is_compatible |-> TRUE,
               rewound |-> TRUE]
         ELSE [buffer |-> doc, is_compatible |-> TRUE,
               rewound |-> InputRewound(validation_result)]
    ELSE [buffer |-> doc, is_compatible |-> FALSE,
          rewound |-> InputRewound(validation_result)]

\* validator.py 264-344: validate_pdf_for_paperless, without its notes text
validate_pdf_for_paperless(doc) ==
    IF ~doc.openable
    THEN [buffer |-> doc, is_compatible |-> FALSE, rewound |-> FALSE]
    ELSE The({PaperlessResult(doc, validation_result) :
                validation_result \in {comprehensive_validation(doc, TRUE)}})

\* splitter.py 20-29
ValidatedOrOriginal(doc, r) ==
    IF ~r.is_compatible
    THEN [buffer |-> doc, is_valid |-> FALSE, rewound |-> r.rewound]
    ELSE [buffer |-> r.buffer, is_valid |-> TRUE, rewound |-> r.rewound]

\* splitter.py 11-33: validate_and_repair_pdf
validate_and_repair_pdf(doc) ==
    The({ValidatedOrOriginal(doc, r) : r \in {validate_pdf_for_paperless(doc)}})

(***************************************************************************)
(* split_pdf (splitter.py 36-155).                                         *)
(***************************************************************************)
RECURSIVE Insert(_, _)
Insert(x, sorted) ==
    IF Len(sorted) = 0 THEN <<x>>
    ELSE IF x <= Head(sorted) THEN <<x>> \o sorted
    ELSE <<Head(sorted)>> \o Insert(x, Tail(sorted))

RECURSIVE Sorted(_)
\* Python's sorted() on a list of ints
Sorted(xs) == IF Len(xs) = 0 THEN <<>> ELSE Insert(Head(xs), Sorted(Tail(xs)))

\* splitter.py 55, taking the page itself as the 0-based index
SplitIndicesOneBased(split_pages) == Sorted(split_pages)

\* splitter.py 55
SplitIndices(split_pages) ==
    Sorted([i \in 1..Len(split_pages) |-> split_pages[i] - 1])

\* splitter.py 51-62, with `>=` weakened to `>` in the upper check
InvalidSplitPagesLaxUpper(num_pages, split_pages) ==
    IF Len(split_pages) = 0 THEN TRUE
    ELSE LET split_indices == SplitIndices(split_pages)
         IN  split_indices[1] < 0 \/ split_indices[Len(split_indices)] > num_pages

\* splitter.py 51-62: the ValueError cases
InvalidSplitPages(num_pages, split_pages) ==
    IF Len(split_pages) = 0 THEN TRUE
    ELSE LET split_indices == SplitIndices(split_pages)
         IN  split_indices[1] < 0 \/ split_indices[Len(split_indices)] >= num_pages

\* splitter.py 64-78, with the leading part left out
BuildRangesNoLeadingPart(num_pages, split_indices) ==
    [i \in 1..Len(split_indices) |->
        <<split_indices[i],
          IF i + 1 <= Len(split_indices) THEN split_indices[i + 1] ELSE num_pages>>]

\* splitter.py 64-78: ranges as (start, end) pairs, 0-based and half-open
BuildRanges(num_pages, split_indices) ==
    (IF split_indices[1] > 0 THEN << <<0, split_indices[1]>> >> ELSE <<>>)
    \o [i \in 1..Len(split_indices) |->
          <<split_indices[i],
            IF i + 1 <= Len(split_indices) THEN split_indices[i + 1] ELSE num_pages>>]

Ranges(num_pages, split_pages) == BuildRanges(num_pages, SplitIndices(split_pages))

\* splitter.py 88-89, leaving out the first page of the range
SliceAfterFirst(pages, start, end) == SubSeq(pages, start + 2, end)

\* Python's pages[start:end]
Slice(pages, start, end) == SubSeq(pages, start + 1, end)

\* splitter.py 102, numbering the parts from 0
SplitInfoFromZero(orig_basename, idx, total) ==
    <<"Split-Of=", orig_basename, "#part", ToString(idx - 1), "/", ToString(total)>>

\* splitter.py 102: split_info for part idx (from 1) of total
SplitInfo(orig_basename, idx, total) ==
    <<"Split-Of=", orig_basename, "#part", ToString(idx), "/", ToString(total)>>

\* splitter.py 103-107: new_keywords
NewKeywords(existing_keywords, split_info) ==
    IF Len(existing_keywords) > 0
    THEN existing_keywords \o <<"; ">> \o split_info
    ELSE split_info

\* splitter.py 100-110: pdf:Keywords of the part after the try block; the
\* xmp_keywords of the source are what xmp.get("pdf:Keywords", "") finds on
\* a part built from it
KeywordsAfterInjection(existing_keywords, split_info, xmp_fault) ==
    IF xmp_fault THEN existing_keywords
    ELSE NewKeywords(existing_keywords, split_info)

\* splitter.py 91-97: the docinfo of the part
CopyDocinfo(pdf) ==
    IF pdf.docinfo_fault THEN <<>>
    ELSE SelectSeq(pdf.docinfo, LAMBDA e : e.value.is_str)


\* splitter.py 85-115: the part assembled for ranges[idx] (idx from 1), as saved;
\* page objects that repair_pdf cannot write out stay so in the part
AssemblePart(pdf, ranges, idx, orig_basename, xmp_fault) ==
    [openable |-> TRUE,
     has_pages_attr |-> TRUE,
     save_fault |-> pdf.save_fault,
     pages |-> Slice(pdf.pages, ranges[idx][1], ranges[idx][2]),
     docinfo |-> CopyDocinfo(pdf),
     docinfo_fault |-> FALSE,
     xmp_keywords |-> KeywordsAfterInjection(pdf.xmp_keywords,
                          SplitInfo(orig_basename, idx, Len(ranges)), xmp_fault),
     is_encrypted |-> FALSE,
     pdf_version |-> "1.3"]

\* splitter.py 128-134: the pages-only copy of the same range, as saved
FallbackPart(pdf, range) ==
    [openable |-> TRUE,
     has_pages_attr |-> TRUE,
     save_fault |-> pdf.save_fault,
     pages |-> Slice(pdf.pages, range[1], range[2]),
     docinfo |-> <<>>,
     docinfo_fault |-> FALSE,
     xmp_keywords |-> <<>>,
     is_encrypted |-> FALSE,
     pdf_version |-> "1.3"]

\* splitter.py 120-148 without the pages-only second attempt of 123-142
DeliveredSkipFallback(range, buf, first, final) ==
    IF first.is_valid
    THEN [range |-> range, outcome |-> "validated", buffer |-> first.buffer,
          rewound |-> first.rewound]
    ELSE [range |-> range, outcome |-> "degraded", buffer |-> buf,
          rewound |-> first.rewound]

\* splitter.py 120-148: which buffer is appended to output_parts; buf is the
\* object the first validation read, so it is where that validation left it
Delivered(range, buf, first, final) ==
    IF first.is_valid
    THEN [range |-> range, outcome |-> "validated", buffer |-> first.buffer,
          rewound |-> first.rewound]
    ELSE IF final.is_valid
    THEN [range |-> range, outcome |-> "fallback", buffer |-> final.buffer,
          rewound |-> final.rewound]
    ELSE [range |-> range, outcome |-> "degraded", buffer |-> buf,
          rewound |-> first.rewound]

\* splitter.py 117-148: the buffer appended to output_parts for one part
DeliverPart(pdf, range, buf) ==
    The({Delivered(range, buf, first, final) :
            first \in {validate_and_repair_pdf(buf)},
            final \in {validate_and_repair_pdf(fallback) :
                          fallback \in {FallbackPart(pdf, range)}}})

\* splitter.py 120-148, with a part that cannot be repaired left out
AppendPartUnlessDegraded(output_parts, part) ==
    IF part.outcome = "degraded" THEN output_parts ELSE Append(output_parts, part)

\* splitter.py 121, 139, 148: output_parts.append(...)
AppendPart(output_parts, part) == Append(output_parts, part)

\* splitter.py 100-110 raises in this run
XmpFails(fault) == fault \in {"xmp", "both"}

\* splitter.py 84-155 with the failure of a save swallowed: the parts made
\* before it are returned
SplitRangesKeepFirst(pdf, ranges, orig_basename, fault) ==
    [raised |-> FALSE,
     parts |-> [i \in 1..(IF fault = "save" /\ Len(ranges) >= 2 THEN 1 ELSE Len(ranges)) |->
         The({DeliverPart(pdf, ranges[i], buf) :
                 buf \in {AssemblePart(pdf, ranges, i, orig_basename,
                                        XmpFails(fault))}})]]

\* splitter.py 84-150: all parts of the ranges, or raised when a save fails
SplitRanges(pdf, ranges, orig_basename, fault) ==
    IF fault = "save" /\ Len(ranges) >= 2
    THEN [raised |-> TRUE, parts |-> <<>>]
    ELSE [raised |-> FALSE,
          parts |-> [i \in 1..Len(ranges) |->
              The({DeliverPart(pdf, ranges[i], buf) :
                      buf \in {AssemblePart(pdf, ranges, i, orig_basename,
                                             XmpFails(fault))}})]]

\* splitter.py 36-155 as one call: raised, or the list of parts returned
SplitPdf(pdf, split_pages, orig_basename, fault) ==
    IF ~pdf.openable THEN [raised |-> TRUE, parts |-> <<>>]
    ELSE IF InvalidSplitPages(Len(pdf.pages), split_pages)
    THEN [raised |-> TRUE, parts |-> <<>>]
    ELSE The({SplitRanges(pdf, ranges, orig_basename, fault) :
                ranges \in {Ranges(Len(pdf.pages), split_pages)}})

(***************************************************************************)
(* The split endpoints (api/routes/split.py).                              *)
(***************************************************************************)
MAX_UPLOAD_SIZE_MB == 100

\* split.py 152, 352
TooLarge(size) == size > MAX_UPLOAD_SIZE_MB * 1024 * 1024

\* Python's dict.get(key, default)
Get(d, key, default) == IF key \in DOMAIN d THEN d[key] ELSE default

\* split.py 49-54: pdf_buffer.seek(0); pdf_buffer.read() on BytesIO(contents)
ReadBuffer(pdf_buffer, validation_result) == pdf_buffer

\* split.py 35-62: what is returned once comprehensive_validation has returned
InputResult(contents, pdf_buffer, validation_result) ==
    [contents |->
         IF validation_result.is_valid THEN contents
         ELSE IF validation_result.needs_repair
                 /\ validation_result.repair_successful
         THEN ReadBuffer(pdf_buffer, validation_result)
         ELSE contents,
     info |-> validation_result]

\* split.py 22-72: validate_and_repair_input_pdf; `raises` says that
\* comprehensive_validation raises
validate_and_repair_input_pdf(contents, filename, size, raises) ==
    IF raises
    THEN [contents |-> contents,
          info |-> [filename |-> filename,
                    original_size_mb |-> size \div (1024 * 1024),
                    is_valid |-> FALSE,
                    validation_error |-> OtherMsg]]
    ELSE The({InputResult(contents, contents, validation_result) :
                validation_result \in
                    {[filename |-> filename,
                      original_size_mb |-> size \div (1024 * 1024)]
                     @@ comprehensive_validation(contents, TRUE)}})

\* split.py 161-163, with the second `not` left out
ShouldAbortWhenRepaired(validation_info) ==
    /\ ~Get(validation_info, "is_valid", FALSE)
    /\ Get(validation_info, "repair_successful", FALSE)

\* split.py 161-163, 361-363
ShouldAbort(validation_info) ==
    /\ ~Get(validation_info, "is_valid", FALSE)
    /\ ~Get(validation_info, "repair_successful", FALSE)

\* split.py 220, without the upper limit
PageOutOfRangeNoUpper(page_num, num_pages) == page_num < 1

\* split.py 220, 420
PageOutOfRange(page_num, num_pages) == page_num < 1 \/ page_num > num_pages

\* schemas/split.py 6-25: SplitRequest(**pages_data) raises
SplitRequestRaises(pages) ==
    \/ pages.kind # "list"
    \/ \E k \in 1..Len(pages.items) : ~pages.items[k].is_int \/ pages.items[k].page < 1
    \/ Len(pages.items) < 1

\* split.py 213-225: the range check against the file at tmp_path
CheckRange(split_pages, tmp) ==
    IF tmp = NoBuffer
    THEN [should_split |-> FALSE, split_pages |-> split_pages]
    ELSE IF ~tmp.openable
    THEN [should_split |-> FALSE, split_pages |-> split_pages]
    ELSE [should_split |->
              ~\E k \in 1..Len(split_pages) :
                   PageOutOfRange(split_pages[k], Len(tmp.pages)),
          split_pages |-> split_pages]

\* split.py 193-250, 393-450: (should_split, split_pages) after parsing the
\* `pages` form field against the file at tmp_path
ParsePages(pages, tmp) ==
    IF pages.kind \in {"badjson", "scalar"}
    THEN [should_split |-> FALSE, split_pages |-> <<>>]
    ELSE IF pages.kind \in {"nokey", "null"}
            \/ (pages.kind = "list" /\ Len(pages.items) = 0)
    THEN [should_split |-> FALSE, split_pages |-> <<>>]
    ELSE IF SplitRequestRaises(pages)
    THEN [should_split |-> FALSE, split_pages |-> <<>>]
    ELSE CheckRange([k \in 1..Len(pages.items) |-> pages.items[k].page], tmp)

\* split.py 319 against 522-523: the position the body of a part is read
\* from: /v1/split does part.read(), /v1/split-into-zip does part.seek(0)
\* first; left_at is where the last pikepdf.open left a buffer not rewound
ReadFrom(endpoint, part, left_at) ==
    IF endpoint = "zip" \/ part.rewound THEN "start" ELSE left_at

\* split.py 313, 520: the name of part idx (from 1)
PartFilename(stem, idx) == <<stem, "_part", ToString(idx), ".pdf">>

(***************************************************************************)
(* Bounded inputs.                                                         *)
(***************************************************************************)
MaxValPages == 2

PageKinds ==
    {"good", "nobox", "zerowidth", "negheight", "badrot", "nocontents",
     "skipped", "faulty", "rotfault", "noboxrecopied", "uncopyable"}

\* a page of the given kind; id is the page's identity in its source document
PageOfKind(id, kind) ==
    [id |-> id,
     mediabox |-> CASE kind \in {"nobox", "noboxrecopied"} -> None
                    [] kind = "zerowidth" -> <<0, 0, 0, 842>>
                    [] kind = "negheight" -> <<0, 0, 595, -1>>
                    [] kind = "rotfault" -> <<10, 0, 10, 842>>
                    [] OTHER -> A4,
     rotation |-> IF kind = "badrot" THEN 45 ELSE 0,
     contents |-> IF kind = "nocontents" THEN "inaccessible" ELSE "ok",
     fault |-> CASE kind \in {"skipped", "faulty"} -> "mediabox"
                 [] kind = "rotfault" -> "rotation"
                 [] OTHER -> "none",
     fault_msg |-> IF kind = "skipped" THEN BenignMsg ELSE OtherMsg,
     copy_fault |-> CASE kind = "noboxrecopied" -> "primary"
                      [] kind = "uncopyable" -> "both"
                      [] OTHER -> "none"]

StrValue(n) == [is_str |-> TRUE, len |-> n]
NonStrValue == [is_str |-> FALSE, len |-> 0]

DocinfoSamples ==
    { <<>>,
      << [key |-> <<"Title">>, value |-> StrValue(12)] >>,
      << [key |-> <<"Title">>, value |-> StrValue(10000)] >>,
      << [key |-> <<"Title">>, value |-> StrValue(10001)] >>,
      << [key |-> <<"Invalid", "Dimensions">>, value |-> StrValue(10001)] >>,
      << [key |-> <<"Author">>, value |-> NonStrValue],
         [key |-> <<"Title">>, value |-> StrValue(12)] >> }

SeqsUpTo(S, n) == {<<>>} \cup UNION {[1..k -> S] : k \in 1..n}

MkDoc(kinds, docinfo, fault, enc, ver) ==
    [openable |-> fault # "open",
     has_pages_attr |-> TRUE,
     save_fault |-> fault = "save",
     pages |-> [i \in 1..Len(kinds) |-> PageOfKind(i, kinds[i])],
     docinfo |-> docinfo,
     docinfo_fault |-> fault = "docinfo",
     xmp_keywords |-> <<>>,
     is_encrypted |-> enc,
     pdf_version |-> ver]

ValidatorDocs ==
    { MkDoc(kinds, di, fault, enc, ver) :
        kinds \in SeqsUpTo(PageKinds, MaxValPages), di \in DocinfoSamples,
        fault \in {"none", "open", "docinfo", "save"}, enc \in BOOLEAN,
        ver \in {"1.3", "1.7"} }

NoResult == [is_valid |-> FALSE, issues |-> <<>>]
NoReport == [is_valid |-> FALSE]
NoRepair == [success |-> FALSE]

(***************************************************************************)
(* SpecValidator: validate_pdf_structure, comprehensive_validation or      *)
(* repair_pdf applied to one document.                                     *)
(***************************************************************************)
ValidatorIdle ==
    /\ v_pc = "idle"
    /\ v_buffer = NoBuffer
    /\ v_result = NoResult
    /\ v_report = NoReport
    /\ v_repair = NoRepair

SplitIdle ==
    /\ s_pc = "idle"
    /\ s_pdf = NoBuffer
    /\ s_split_pages = <<>>
    /\ s_fault = "none"
    /\ s_ranges = <<>>
    /\ s_idx = 0
    /\ s_output_parts = <<>>

NoInfo == [is_valid |-> FALSE]
NoResponse == [status |-> 0]

RequestIdle ==
    /\ r_pc = "idle"
    /\ r_endpoint = "split"
    /\ r_contents = NoBuffer
    /\ r_size = 0
    /\ r_pages = [kind |-> "nokey", items |-> <<>>]
    /\ r_fault = "none"
    /\ r_left_at = "start"
    /\ r_repaired_contents = NoBuffer
    /\ r_validation_info = NoInfo
    /\ r_tmp = NoBuffer
    /\ r_should_split = FALSE
    /\ r_split_pages = <<>>
    /\ r_splitter_ran = FALSE
    /\ r_parts = <<>>
    /\ r_bg_tasks = <<>>
    /\ r_response = NoResponse

SweeperIdle ==
    /\ c_pc = "idle"
    /\ c_exists = TRUE
    /\ c_fault = "none"
    /\ c_now = 0
    /\ c_listing = <<>>
    /\ c_present = {}
    /\ c_idx = 0
    /\ c_deleted_count = 0

ServiceIdle ==
    /\ a_clock = 0
    /\ a_startup = "idle"
    /\ a_dir = {}
    /\ a_req = <<>>

SchemaIdle ==
    /\ q_pc = "idle"
    /\ q_input = <<>>
    /\ q_result = <<>>

InitValidator ==
    /\ v_pc = "start"
    /\ v_buffer \in ValidatorDocs
    /\ v_result = NoResult
    /\ v_report = NoReport
    /\ v_repair = NoRepair
    /\ SplitIdle
    /\ RequestIdle
    /\ SweeperIdle
    /\ ServiceIdle
    /\ SchemaIdle

\* validator.py 10-127
Validate ==
    /\ v_pc = "start"
    /\ v_result' = validate_pdf_structure(v_buffer)
    /\ v_pc' = "done"
    /\ UNCHANGED <<v_buffer, v_report, v_repair, svars, rvars, cvars, avars, qvars>>

\* validator.py 192-261
ComprehensiveValidate ==
    /\ v_pc = "start"
    /\ v_report' = comprehensive_validation(v_buffer, TRUE)
    /\ v_pc' = "reported"
    /\ UNCHANGED <<v_buffer, v_result, v_repair, svars, rvars, cvars, avars, qvars>>

\* validator.py 129-190
Repair ==
    /\ v_pc = "start"
    /\ v_repair' = repair_pdf(v_buffer)
    /\ v_pc' = "repaired"
    /\ UNCHANGED <<v_buffer, v_result, v_report, svars, rvars, cvars, avars, qvars>>

\* validator.py 192-261, called with include_repair=False
ComprehensiveValidateOnly ==
    /\ v_pc = "start"
    /\ v_report' = comprehensive_validation(v_buffer, FALSE)
    /\ v_pc' = "reported_only"
    /\ UNCHANGED <<v_buffer, v_result, v_repair, svars, rvars, cvars, avars, qvars>>

NextValidator ==
    Validate \/ ComprehensiveValidate \/ ComprehensiveValidateOnly \/ Repair

SpecValidator == InitValidator /\ [][NextValidator]_vars

(***************************************************************************)
(* SpecSplit: split_pdf(input_path, split_pages), one part per step.       *)
(***************************************************************************)
MaxPages == 4
MaxPoints == 3

OrigBasename == "tmpfile"

SplitDocinfo ==
    << [key |-> <<"Author">>, value |-> NonStrValue],
       [key |-> <<"Title">>, value |-> StrValue(12)],
       [key |-> <<"Subject">>, value |-> StrValue(1001)] >>

\* an n-page document whose last page is of the given kind
SplitDoc(n, lastkind, openable) ==
    [openable |-> openable,
     has_pages_attr |-> TRUE,
     save_fault |-> FALSE,
     pages |-> [i \in 1..n |-> PageOfKind(i, IF i = n THEN lastkind ELSE "good")],
     docinfo |-> SplitDocinfo,
     docinfo_fault |-> FALSE,
     xmp_keywords |-> <<>>,
     is_encrypted |-> FALSE,
     pdf_version |-> "1.7"]

\* a document whose parts come with keywords of their own
WithKeywords(doc) == [doc EXCEPT !.xmp_keywords = <<"archive">>]

\* a document with an over-long metadata field whose name reads as a
\* critical issue, and whose reconstruction by repair_pdf cannot be saved
UnsaveableWithLongField(doc) ==
    [doc EXCEPT !.save_fault = TRUE,
                !.docinfo = << [key |-> <<"Invalid", "Dimensions">>,
                                value |-> StrValue(10001)] >>]

SplitDocs ==
    { SplitDoc(n, k, TRUE) : n \in 1..MaxPages, k \in {"good", "nobox", "zerowidth"} }
    \cup { WithKeywords(SplitDoc(n, "good", TRUE)) : n \in 1..MaxPages }
    \cup { UnsaveableWithLongField(SplitDoc(n, "good", TRUE)) : n \in 1..MaxPages }

\* "save": saving the second part raises; "xmp": open_metadata raises;
\* "meta": pdf.docinfo raises; "both": "xmp" and "meta"
SplitFaults == {"none", "save", "xmp", "meta", "both"}

\* the document, with its docinfo raising when the run has a metadata fault
WithMetadataFault(doc, fault) ==
    [doc EXCEPT !.docinfo_fault = fault \in {"meta", "both"}]

\* the 100-page example of the specification
ExampleDoc == SplitDoc(100, "good", TRUE)
ExampleSplitPages == <<28, 37, 85>>

InitSplit ==
    /\ s_pc = "open"
    /\ \/ /\ s_fault \in SplitFaults
          /\ s_pdf \in { WithMetadataFault(d, s_fault) : d \in SplitDocs }
          /\ s_split_pages \in SeqsUpTo(0..(Len(s_pdf.pages) + 1), MaxPoints)
       \/ /\ s_pdf = SplitDoc(1, "good", FALSE)
          /\ s_split_pages = <<1>>
          /\ s_fault = "none"
       \/ /\ s_pdf = ExampleDoc
          /\ s_split_pages = ExampleSplitPages
          /\ s_fault = "none"
    /\ s_ranges = <<>>
    /\ s_idx = 0
    /\ s_output_parts = <<>>
    /\ ValidatorIdle
    /\ RequestIdle
    /\ SweeperIdle
    /\ ServiceIdle
    /\ SchemaIdle

\* splitter.py 47-62, 152-155: the input cannot be opened, or the split pages
\* are rejected
SplitRaise ==
    /\ s_pc = "open"
    /\ IF s_pdf.openable THEN InvalidSplitPages(Len(s_pdf.pages), s_split_pages)
       ELSE TRUE
    /\ s_pc' = "raised"
    /\ UNCHANGED <<s_pdf, s_split_pages, s_fault, s_ranges, s_idx, s_output_parts, vvars, rvars, cvars, avars, qvars>>

\* splitter.py 47-82
SplitPlan ==
    /\ s_pc = "open"
    /\ s_pdf.openable
    /\ ~InvalidSplitPages(Len(s_pdf.pages), s_split_pages)
    /\ s_ranges' = Ranges(Len(s_pdf.pages), s_split_pages)
    /\ s_idx' = 1
    /\ s_pc' = "assemble"
    /\ UNCHANGED <<s_pdf, s_split_pages, s_fault, s_output_parts, vvars, rvars, cvars, avars, qvars>>

\* splitter.py 84-148: one iteration of the loop over ranges
SplitPart ==
    /\ s_pc = "assemble"
    /\ s_idx <= Len(s_ranges)
    /\ ~(s_fault = "save" /\ s_idx = 2)
    /\ s_output_parts' =
           AppendPart(s_output_parts,
               DeliverPart(s_pdf, s_ranges[s_idx],
                   AssemblePart(s_pdf, s_ranges, s_idx, OrigBasename, XmpFails(s_fault))))
    /\ s_idx' = s_idx + 1
    /\ UNCHANGED <<s_pc, s_pdf, s_split_pages, s_fault, s_ranges, vvars, rvars, cvars, avars, qvars>>

\* splitter.py 114, 152-155: saving the second part raises
SplitPartRaise ==
    /\ s_pc = "assemble"
    /\ s_idx <= Len(s_ranges)
    /\ s_fault = "save" /\ s_idx = 2
    /\ s_pc' = "raised"
    /\ UNCHANGED <<s_pdf, s_split_pages, s_fault, s_ranges, s_idx, s_output_parts, vvars, rvars, cvars, avars, qvars>>

\* splitter.py 150
SplitReturn ==
    /\ s_pc = "assemble"
    /\ s_idx > Len(s_ranges)
    /\ s_pc' = "returned"
    /\ UNCHANGED <<s_pdf, s_split_pages, s_fault, s_ranges, s_idx, s_output_parts, vvars, rvars, cvars, avars, qvars>>

NextSplit == SplitRaise \/ SplitPlan \/ SplitPart \/ SplitPartRaise \/ SplitReturn

SpecSplit == InitSplit /\ [][NextSplit]_vars

(***************************************************************************)
(* Spec: one request through /v1/split or /v1/split-into-zip.              *)
(***************************************************************************)
MaxReqPages == 3
MaxReqPoints == 2

Stem == "upload"
Filename == <<Stem, ".pdf">>

LimitBytes == MAX_UPLOAD_SIZE_MB * 1024 * 1024

RequestDocs ==
    { SplitDoc(n, "good", TRUE) : n \in 1..MaxReqPages }
    \cup { SplitDoc(2, "nobox", TRUE),
           SplitDoc(1, "zerowidth", TRUE),
           SplitDoc(0, "good", TRUE),
           SplitDoc(1, "good", FALSE),
           [SplitDoc(2, "nobox", TRUE) EXCEPT !.save_fault = TRUE] }

PageItems(n) ==
    { [is_int |-> TRUE, page |-> p] : p \in 0..(n + 1) }
    \cup { [is_int |-> FALSE, page |-> 0] }

\* the `pages` form field: not JSON; JSON but not an object or array; without
\* a "pages" key; with "pages": null; with "pages" something that is no list;
\* with a list of items, each {"page": <int>} or something else
PagesFields(n) ==
    { [kind |-> k, items |-> <<>>] :
        k \in {"badjson", "scalar", "nokey", "null", "notalist"} }
    \cup { [kind |-> "list", items |-> items] :
             items \in SeqsUpTo(PageItems(n), MaxReqPoints) }

Init ==
    /\ r_pc = "received"
    /\ r_endpoint \in {"split", "zip", "validate"}
    /\ r_contents \in RequestDocs
    /\ r_size \in {LimitBytes, LimitBytes + 1}
    /\ r_pages \in IF r_endpoint = "validate"
                   THEN {[kind |-> "nokey", items |-> <<>>]}
                   ELSE PagesFields(Len(r_contents.pages))
    /\ r_fault \in IF r_endpoint = "validate"
                   THEN {"none", "validation"}
                   ELSE {"none", "validation", "save", "xmp"}
    /\ r_left_at \in IF r_endpoint = "validate"
                     THEN {"start"}
                     ELSE {"start", "inside", "end"}
    /\ r_repaired_contents = NoBuffer
    /\ r_validation_info = NoInfo
    /\ r_tmp = NoBuffer
    /\ r_should_split = FALSE
    /\ r_split_pages = <<>>
    /\ r_splitter_ran = FALSE
    /\ r_parts = <<>>
    /\ r_bg_tasks = <<>>
    /\ r_response = NoResponse
    /\ ValidatorIdle
    /\ SplitIdle
    /\ SweeperIdle
    /\ ServiceIdle
    /\ SchemaIdle

ValidatedInput ==
    validate_and_repair_input_pdf(r_contents, Filename, r_size, r_fault = "validation")

\* the request is for /v1/split or /v1/split-into-zip
SplitRequested == r_endpoint \in {"split", "zip"}

\* split.py 271-272, 324-325, 479-480, 533-534, adding no task
ScheduleNothing(background_tasks) == background_tasks

\* split.py 271-272, 324-325, 479-480, 533-534:
\* background_tasks.add_task(os.remove, tmp_path)
ScheduleRemove(background_tasks) == Append(background_tasks, "os.remove(tmp_path)")

\* the file at tmp_path once the background tasks have run
AfterBackground(tmp, background_tasks) ==
    IF \E k \in 1..Len(background_tasks) : background_tasks[k] = "os.remove(tmp_path)"
    THEN NoBuffer
    ELSE tmp

\* split.py 91-93, 152-154, 352-354
RejectTooLarge ==
    /\ r_pc = "received"
    /\ TooLarge(r_size)
    /\ r_response' = [status |-> 413]
    /\ r_pc' = "done"
    /\ UNCHANGED <<rinput, r_bg_tasks, r_repaired_contents, r_validation_info, r_tmp,
                   r_should_split, r_split_pages, r_splitter_ran, r_parts,
                   vvars, svars, cvars, avars, qvars>>

\* split.py 156-176, 356-376
AbortInvalidInput ==
    /\ r_pc = "received"
    /\ SplitRequested
    /\ ~TooLarge(r_size)
    /\ \E v \in {ValidatedInput} :
          /\ ShouldAbort(v.info)
          /\ r_repaired_contents' = v.contents
          /\ r_validation_info' = v.info
          /\ r_response' =
                 [status |-> 400,
                  error |-> "PDF validation failed and could not be repaired",
                  validation_info |-> v.info]
    /\ r_pc' = "done"
    /\ UNCHANGED <<rinput, r_bg_tasks, r_tmp, r_should_split, r_split_pages,
                   r_splitter_ran, r_parts, vvars, svars, cvars, avars, qvars>>

\* split.py 156-184, 356-384
AcceptInput ==
    /\ r_pc = "received"
    /\ SplitRequested
    /\ ~TooLarge(r_size)
    /\ \E v \in {ValidatedInput} :
          /\ ~ShouldAbort(v.info)
          /\ r_repaired_contents' = v.contents
          /\ r_validation_info' = v.info
    /\ r_pc' = "validated"
    /\ UNCHANGED <<rinput, r_bg_tasks, r_tmp, r_should_split, r_split_pages,
                   r_splitter_ran, r_parts, r_response, vvars, svars, cvars, avars, qvars>>

\* split.py 186-189, 386-389
SaveTemp ==
    /\ r_pc = "validated"
    /\ r_tmp' = r_repaired_contents
    /\ r_pc' = "saved"
    /\ UNCHANGED <<rinput, r_bg_tasks, r_repaired_contents, r_validation_info,
                   r_should_split, r_split_pages, r_splitter_ran, r_parts,
                   r_response, vvars, svars, cvars, avars, qvars>>

\* split.py 193-250, 393-450
ParsePagesField ==
    /\ r_pc = "saved"
    /\ SplitRequested
    /\ \E parsed \in {ParsePages(r_pages, r_tmp)} :
          /\ r_should_split' = parsed.should_split
          /\ r_split_pages' = parsed.split_pages
    /\ r_pc' = "parsed"
    /\ UNCHANGED <<rinput, r_bg_tasks, r_repaired_contents, r_validation_info, r_tmp,
                   r_splitter_ran, r_parts, r_response, vvars, svars, cvars, avars, qvars>>

\* split.py 253-264, 453-464
RunSplit ==
    /\ r_pc = "parsed"
    /\ r_should_split
    /\ \E res \in {SplitPdf(r_tmp, r_split_pages, OrigBasename, r_fault)} :
          /\ r_should_split' = ~res.raised
          /\ r_parts' = res.parts
    /\ r_splitter_ran' = TRUE
    /\ r_pc' = "deliver"
    /\ UNCHANGED <<rinput, r_bg_tasks, r_repaired_contents, r_validation_info, r_tmp,
                   r_split_pages, r_response, vvars, svars, cvars, avars, qvars>>

\* split.py 253, 453: should_split is false, split_pdf is not called
SkipSplit ==
    /\ r_pc = "parsed"
    /\ ~r_should_split
    /\ r_pc' = "deliver"
    /\ UNCHANGED <<rinput, r_bg_tasks, r_repaired_contents, r_validation_info, r_tmp,
                   r_should_split, r_split_pages, r_splitter_ran, r_parts,
                   r_response, vvars, svars, cvars, avars, qvars>>

\* split.py 266-292, 466-502: the working copy is returned unsplit
DeliverOriginal ==
    /\ r_pc = "deliver"
    /\ ~r_should_split
    /\ r_bg_tasks' = ScheduleRemove(r_bg_tasks)
    /\ r_response' =
           [status |-> 200,
            media |-> IF r_endpoint = "split" THEN "application/pdf"
                      ELSE "application/zip",
            files |-> << [filename |-> Filename, body |-> r_repaired_contents,
                          from |-> "start"] >>]
    /\ r_pc' = "responded"
    /\ UNCHANGED <<rinput, r_repaired_contents, r_validation_info, r_tmp,
                   r_should_split, r_split_pages, r_splitter_ran, r_parts,
                   vvars, svars, cvars, avars, qvars>>

\* split.py 294-332, 504-544: the parts are returned
DeliverParts ==
    /\ r_pc = "deliver"
    /\ r_should_split
    /\ r_bg_tasks' = ScheduleRemove(r_bg_tasks)
    /\ r_response' =
           [status |-> 200,
            media |-> IF r_endpoint = "split" THEN "multipart/mixed"
                      ELSE "application/zip",
            files |-> [i \in 1..Len(r_parts) |->
                         [filename |-> PartFilename(Stem, i),
                          body |-> r_parts[i].buffer,
                          from |-> ReadFrom(r_endpoint, r_parts[i], r_left_at)]]]
    /\ r_pc' = "responded"
    /\ UNCHANGED <<rinput, r_repaired_contents, r_validation_info, r_tmp,
                   r_should_split, r_split_pages, r_splitter_ran, r_parts,
                   vvars, svars, cvars, avars, qvars>>

\* the response has been sent and the background tasks run, in the order
\* added (split.py 272, 325, 480, 534: os.remove(tmp_path))
RemoveTemp ==
    /\ r_pc = "responded"
    /\ r_tmp' = AfterBackground(r_tmp, r_bg_tasks)
    /\ r_pc' = "done"
    /\ UNCHANGED <<rinput, r_bg_tasks, r_repaired_contents, r_validation_info,
                   r_should_split, r_split_pages, r_splitter_ran, r_parts,
                   r_response, vvars, svars, cvars, avars, qvars>>

\* split.py 95-98: /v1/validate-pdf writes the upload to a temp file
ValidateSaveTemp ==
    /\ r_pc = "received"
    /\ r_endpoint = "validate"
    /\ ~TooLarge(r_size)
    /\ r_tmp' = r_contents
    /\ r_pc' = "saved"
    /\ UNCHANGED <<rinput, r_bg_tasks, r_repaired_contents, r_validation_info,
                   r_should_split, r_split_pages, r_splitter_ran, r_parts,
                   r_response, vvars, svars, cvars, avars, qvars>>

\* split.py 102-124: the validation returns, the temp file is removed and
\* the result returned
ValidateReturn ==
    /\ r_pc = "saved"
    /\ r_endpoint = "validate"
    /\ r_fault # "validation"
    /\ r_validation_info' =
           [filename |-> Filename, original_size_mb |-> r_size \div (1024 * 1024)]
           @@ comprehensive_validation(r_contents, TRUE)
    /\ r_tmp' = NoBuffer
    /\ r_response' = [status |-> 200]
    /\ r_pc' = "done"
    /\ UNCHANGED <<rinput, r_bg_tasks, r_repaired_contents, r_should_split,
                   r_split_pages, r_splitter_ran, r_parts, vvars, svars, cvars, avars, qvars>>

\* split.py 126-132: the validation raises, the temp file is removed and the
\* request answered with a 400
ValidateFail ==
    /\ r_pc = "saved"
    /\ r_endpoint = "validate"
    /\ r_fault = "validation"
    /\ r_tmp' = NoBuffer
    /\ r_response' = [status |-> 400, error |-> "PDF validation failed"]
    /\ r_pc' = "done"
    /\ UNCHANGED <<rinput, r_bg_tasks, r_repaired_contents, r_validation_info,
                   r_should_split, r_split_pages, r_splitter_ran, r_parts,
                   vvars, svars, cvars, avars, qvars>>

Next ==
    \/ RejectTooLarge
    \/ AbortInvalidInput
    \/ AcceptInput
    \/ SaveTemp
    \/ ParsePagesField
    \/ RunSplit
    \/ SkipSplit
    \/ DeliverOriginal
    \/ DeliverParts
    \/ RemoveTemp
    \/ ValidateSaveTemp
    \/ ValidateReturn
    \/ ValidateFail

Spec == Init /\ [][Next]_vars

\* the handler is not cancelled and the background tasks run once the
\* response is sent
SpecLive == Init /\ [][Next]_vars /\ WF_vars(Next)

(***************************************************************************)
(* SpecSweeper: one run of cleanup_temp_files (sweeper.py 12-54).          *)
(***************************************************************************)
TEMP_RETENTION_MIN == 60

\* sweeper.py 9
RETENTION_MIN == TEMP_RETENTION_MIN

\* sweeper.py 23
Cutoff(now) == now - (RETENTION_MIN * 60)

\* sweeper.py 36, deleting at the cutoff as well
IsOldOrAtCutoff(file_mtime, cutoff) == file_mtime <= cutoff

\* sweeper.py 36
IsOld(file_mtime, cutoff) == file_mtime < cutoff

MaxFiles == 3

FileNames == <<"f1", "f2", "f3", "f4", "f5">>

\* an entry of the directory: a regular file or a directory, its modification
\* time, and the call that raises OSError on it ("none" | "getmtime" | "remove")
DirEntries(now) ==
    { [is_file |-> TRUE, mtime |-> Cutoff(now) + d, fault |-> f] :
        d \in {-1, 0, 1}, f \in {"none", "getmtime", "remove"} }
    \cup { [is_file |-> FALSE, mtime |-> Cutoff(now) - 1, fault |-> "none"] }

Named(entries) ==
    [k \in 1..Len(entries) |-> [name |-> FileNames[k]] @@ entries[k]]

Names(listing) == {listing[k].name : k \in 1..Len(listing)}

InitSweeper ==
    /\ c_pc = "start"
    /\ c_now \in {3600, 7200}
    /\ \/ /\ c_exists = TRUE
          /\ c_fault = "none"
          /\ c_listing \in {Named(e) : e \in SeqsUpTo(DirEntries(c_now), MaxFiles)}
       \/ /\ c_exists = TRUE
          /\ c_fault = "listdir"
          /\ c_listing \in {Named(e) : e \in SeqsUpTo(DirEntries(c_now), 1)}
       \/ /\ c_exists = FALSE
          /\ c_fault \in {"none", "makedirs"}
          /\ c_listing = <<>>
    /\ c_present = Names(c_listing)
    /\ c_idx = 0
    /\ c_deleted_count = 0
    /\ ValidatorIdle
    /\ SplitIdle
    /\ RequestIdle
    /\ ServiceIdle
    /\ SchemaIdle

\* sweeper.py 16-19: the directory is missing, is created, and the run
\* returns
CleanupCreateDir ==
    /\ c_pc = "start"
    /\ c_fault = "none"
    /\ ~c_exists
    /\ c_exists' = TRUE
    /\ c_pc' = "created"
    /\ UNCHANGED <<c_fault, c_now, c_listing, c_present, c_idx, c_deleted_count,
                   vvars, svars, rvars, avars, qvars>>

\* sweeper.py 17, 27, 53-54: os.makedirs or os.listdir raises; the error is
\* logged and the run ends
CleanupError ==
    /\ c_pc = "start"
    /\ c_fault \in {"makedirs", "listdir"}
    /\ c_pc' = "done"
    /\ UNCHANGED <<c_exists, c_fault, c_now, c_listing, c_present, c_idx,
                   c_deleted_count, vvars, svars, rvars, avars, qvars>>

\* sweeper.py 16-27: the directory exists and is listed
CleanupList ==
    /\ c_pc = "start"
    /\ c_fault = "none"
    /\ c_exists
    /\ c_pc' = "scan"
    /\ UNCHANGED <<c_exists, c_fault, c_now, c_listing, c_present, c_idx,
                   c_deleted_count, vvars, svars, rvars, avars, qvars>>

\* sweeper.py 30-47: whether the entry is removed by its iteration
Removes(entry, cutoff) ==
    /\ entry.is_file
    /\ entry.fault = "none"
    /\ IsOld(entry.mtime, cutoff)

\* sweeper.py 27-47: one iteration of the loop over the listing
CleanupEntry ==
    /\ c_pc = "scan"
    /\ c_idx < Len(c_listing)
    /\ c_idx' = c_idx + 1
    /\ IF Removes(c_listing[c_idx + 1], Cutoff(c_now))
       THEN /\ c_present' = c_present \ {c_listing[c_idx + 1].name}
            /\ c_deleted_count' = c_deleted_count + 1
       ELSE UNCHANGED <<c_present, c_deleted_count>>
    /\ UNCHANGED <<c_pc, c_exists, c_fault, c_now, c_listing, vvars, svars, rvars, avars, qvars>>

\* sweeper.py 49-51: the loop is over
CleanupEnd ==
    /\ c_pc = "scan"
    /\ c_idx = Len(c_listing)
    /\ c_pc' = "done"
    /\ UNCHANGED <<c_exists, c_fault, c_now, c_listing, c_present, c_idx,
                   c_deleted_count, vvars, svars, rvars, avars, qvars>>

NextSweeper ==
    CleanupCreateDir \/ CleanupError \/ CleanupList \/ CleanupEntry \/ CleanupEnd

SpecSweeper == InitSweeper /\ [][NextSweeper]_vars

(***************************************************************************)
(* Claims about split_pdf (checked under SpecSplit).                       *)
(***************************************************************************)
\* split_pdf has built its ranges
RangesBuilt == s_idx >= 1

NumPages == Len(s_pdf.pages)

SplitPointSet == {s_split_pages[k] : k \in 1..Len(s_split_pages)}

\* the document given to split_pdf passes validation as it is
SourceValid == validate_pdf_structure(s_pdf).is_valid

MinSplitPoint == CHOOSE p \in SplitPointSet : \A q \in SplitPointSet : p <= q

\* C1: once the ranges are built (so N >= 1 and the split points are a
\* non-empty list within [1, N]) they are in ascending order and tile [0, N):
\* the first starts at 0, the last ends at N, each range ends where the next
\* starts, no range runs backwards, and every page index lies in exactly one.
C1_RangesTilePages ==
    RangesBuilt =>
        /\ Len(s_ranges) >= 1
        /\ s_ranges[1][1] = 0
        /\ s_ranges[Len(s_ranges)][2] = NumPages
        /\ \A i \in 1..(Len(s_ranges) - 1) : s_ranges[i][2] = s_ranges[i + 1][1]
        /\ \A i \in 1..Len(s_ranges) : s_ranges[i][1] <= s_ranges[i][2]
        /\ \A p \in 0..(NumPages - 1) :
              Cardinality({i \in 1..Len(s_ranges) :
                              s_ranges[i][1] <= p /\ p < s_ranges[i][2]}) = 1

\* an unsorted request <<3, 2>> on four pages: a leading part and two more
C1_Witness ==
    /\ s_pc = "returned"
    /\ NumPages = 4
    /\ s_split_pages = <<3, 2>>
    /\ s_ranges = << <<0, 1>>, <<1, 2>>, <<2, 4>> >>

\* C2: the split page starts a new part: the range starts are exactly 0 and
\* p - 1 for each split point p; the 100-page example with <<28, 37, 85>>
\* gives [0,27) [27,36) [36,84) [84,100); the single split point 1 gives the
\* one range [0, N).
C2_SplitPageStartsPart ==
    RangesBuilt =>
        /\ {s_ranges[i][1] : i \in 1..Len(s_ranges)}
              = {0} \cup {p - 1 : p \in SplitPointSet}
        /\ (NumPages = 100 /\ s_split_pages = <<28, 37, 85>>) =>
              s_ranges = << <<0, 27>>, <<27, 36>>, <<36, 84>>, <<84, 100>> >>
        /\ s_split_pages = <<1>> => s_ranges = << <<0, NumPages>> >>

\* the 100-page example, split and returned
C2_Witness ==
    /\ s_pc = "returned"
    /\ NumPages = 100
    /\ s_split_pages = <<28, 37, 85>>
    /\ Len(s_output_parts) = 4
    /\ Len(s_output_parts[3].buffer.pages) = 48

\* C3: the number of ranges equals the number of distinct split points, plus
\* one if and only if the smallest split point is greater than 1.
C3_PartCountIsDistinctPoints ==
    (RangesBuilt /\ SourceValid) =>
        Len(s_ranges) = Cardinality(SplitPointSet)
                        + (IF MinSplitPoint > 1 THEN 1 ELSE 0)

\* C4: every range built has start < end, and no zero-page part is put into
\* output_parts.
C4_NoZeroLengthRange ==
    (RangesBuilt /\ SourceValid) =>
        /\ \A i \in 1..Len(s_ranges) : s_ranges[i][1] < s_ranges[i][2]
        /\ \A i \in 1..Len(s_output_parts) :
              Len(s_output_parts[i].buffer.pages) >= 1

PageIds(doc) == [k \in 1..Len(doc.pages) |-> doc.pages[k].id]

\* C8: no part is dropped: while the loop runs, one buffer has been appended
\* per range already processed; when split_pdf returns there is one buffer per
\* range, and buffer i holds the source pages of range i, whichever outcome
\* (validated, fallback, degraded) delivered it.
C8_NoPartDropped ==
    /\ s_pc = "assemble" => Len(s_output_parts) = s_idx - 1
    /\ s_pc = "returned" =>
          /\ Len(s_output_parts) = Len(s_ranges)
          /\ \A i \in 1..Len(s_ranges) :
                /\ s_output_parts[i].range = s_ranges[i]
                /\ PageIds(s_output_parts[i].buffer)
                      = [k \in 1..(s_ranges[i][2] - s_ranges[i][1]) |->
                            s_ranges[i][1] + k]

\* two parts returned, the second one still invalid after both repair attempts
C8_Witness ==
    /\ s_pc = "returned"
    /\ Len(s_output_parts) = 2
    /\ s_output_parts[1].outcome = "validated"
    /\ s_output_parts[2].outcome = "degraded"
    /\ ~validate_pdf_structure(s_output_parts[2].buffer).is_valid

(***************************************************************************)
(* Claims about the validator (checked under SpecValidator).               *)
(***************************************************************************)
\* page.mediabox returned (a box or None) instead of raising
BoxRead(page) == page.fault # "mediabox"

\* the page's box and its width and height were read without raising
DimsRead(page) ==
    BoxRead(page) /\ page.mediabox # None /\ page.fault # "dimensions"

LacksBox(page) == BoxRead(page) /\ page.mediabox = None

NonPositiveBox(page) ==
    DimsRead(page) /\ (Width(page.mediabox) <= 0 \/ Height(page.mediabox) <= 0)

\* some issue names page i and contains the words kw
IssueNamesPage(issues, i, kw) ==
    \E k \in 1..Len(issues) :
        /\ SubSeq(issues[k], 1, 2) = <<"Page", PageNo(i)>>
        /\ Contains(issues[k], kw)

\* C9: every openable document with a critical structural defect is reported
\* invalid with an issue naming the defect: zero pages gives the single issue
\* "PDF has no pages" and nothing else is checked; a page whose mediabox is
\* None gives "no mediabox" for that page; a page whose width or height is
\* <= 0 gives "invalid dimensions" for that page.
C9_CriticalDefectsReported ==
    (v_pc = "done" /\ v_buffer.openable) =>
        LET pages == v_buffer.pages
            issues == v_result.issues
        IN  /\ Len(pages) = 0 =>
                /\ ~v_result.is_valid
                /\ Len(issues) = 1
                /\ Contains(issues[1], <<"no", "pages">>)
            /\ \A i \in 1..Len(pages) :
                  LacksBox(pages[i]) =>
                      /\ ~v_result.is_valid
                      /\ IssueNamesPage(issues, i, <<"no", "mediabox">>)
            /\ \A i \in 1..Len(pages) :
                  NonPositiveBox(pages[i]) =>
                      /\ ~v_result.is_valid
                      /\ IssueNamesPage(issues, i, <<"invalid", "dimensions">>)

\* a validated two-page document: a page without a box after a zero-width page
C9_Witness ==
    /\ v_pc = "done"
    /\ v_buffer.openable
    /\ Len(v_buffer.pages) = 2
    /\ NonPositiveBox(v_buffer.pages[1])
    /\ Width(v_buffer.pages[1].mediabox) = 0
    /\ LacksBox(v_buffer.pages[2])
    /\ Len(v_result.issues) >= 2

\* a defect of one of the three critical kinds was found by its own check
HasCriticalDefect(doc) ==
    \/ Len(doc.pages) = 0
    \/ \E i \in 1..Len(doc.pages) :
          LacksBox(doc.pages[i]) \/ NonPositiveBox(doc.pages[i])

\* the document opens and nothing raises while it is inspected
FaultFree(doc) ==
    /\ doc.openable
    /\ ~doc.docinfo_fault
    /\ \A i \in 1..Len(doc.pages) : doc.pages[i].fault = "none"

\* C10: for a document inspected without any fault, the verdict is valid if
\* and only if no defect of the three critical kinds was found; rotation,
\* over-long metadata (whatever its key), encryption and the format version
\* never change it.
C10_OnlyCriticalKindsDecideVerdict ==
    (v_pc = "done" /\ FaultFree(v_buffer)) =>
        (v_result.is_valid <=> ~HasCriticalDefect(v_buffer))

(***************************************************************************)
(* Claims about the split endpoints (checked under Spec).                  *)
(***************************************************************************)
\* the request got past the size check and the validity check
PassedValidation ==
    /\ r_endpoint \in {"split", "zip"}
    /\ \/ r_pc \in {"validated", "saved", "parsed", "deliver", "responded"}
       \/ (r_pc = "done" /\ r_response.status \notin {400, 413})

\* the working copy: the bytes the endpoint goes on with after validation
WorkingCopy == r_repaired_contents

\* the `pages` field is not JSON, holds no non-empty "pages" list, is rejected
\* by the schema, or names a point outside [1, page count of the working copy]
BadInstructions ==
    \/ r_pages.kind # "list"
    \/ Len(r_pages.items) = 0
    \/ \E k \in 1..Len(r_pages.items) :
          \/ ~r_pages.items[k].is_int
          \/ r_pages.items[k].page < 1
          \/ r_pages.items[k].page > Len(WorkingCopy.pages)

\* the response has been produced
Responded == r_pc \in {"responded", "done"}

\* C5: when the input passed validation and the split instructions are empty,
\* absent, unparseable, rejected by the schema or hold a point outside
\* [1, page count], the splitter is never run and the response of either
\* endpoint is a 200 with exactly one document, named as the upload, whose
\* body is the working copy; the body is the uploaded bytes when validation
\* attempted no repair.
C5_BadInstructionsFallBack ==
    (PassedValidation /\ BadInstructions) =>
        /\ ~r_splitter_ran
        /\ r_parts = <<>>
        /\ Responded =>
              /\ r_response.status = 200
              /\ Len(r_response.files) = 1
              /\ r_response.files[1].filename = Filename
              /\ r_response.files[1].body = WorkingCopy
              /\ ~r_validation_info.repair_attempted =>
                    r_response.files[1].body = r_contents

\* a three-page upload with the points <<2, 4>> answered with the upload itself
C5_Witness ==
    /\ r_pc = "responded"
    /\ Len(r_contents.pages) = 3
    /\ r_pages.kind = "list"
    /\ Len(r_pages.items) = 2
    /\ r_pages.items[1] = [is_int |-> TRUE, page |-> 2]
    /\ r_pages.items[2] = [is_int |-> TRUE, page |-> 4]
    /\ r_response.status = 200
    /\ Len(r_response.files) = 1
    /\ ~r_splitter_ran

\* comprehensive_validation raised inside validate_and_repair_input_pdf
ValidationFaulted == r_fault = "validation"

\* validation ran to its end, found the upload invalid, and repair_pdf either
\* was not attempted or did not succeed
InvalidUnrepaired ==
    /\ ~ValidationFaulted
    /\ ~validate_pdf_structure(r_contents).is_valid
    /\ ~repair_pdf(r_contents).success

\* the request has gone through validate_and_repair_input_pdf
Validated == r_endpoint \in {"split", "zip"} /\ r_pc # "received" /\ ~TooLarge(r_size)

\* nothing was done past the validity check
NothingStarted ==
    /\ r_tmp = NoBuffer
    /\ r_split_pages = <<>>
    /\ ~r_splitter_ran
    /\ r_parts = <<>>

\* the 400 response with the reason and the validation report as returned
Aborted ==
    /\ r_pc = "done"
    /\ r_response.status = 400
    /\ r_response.error = "PDF validation failed and could not be repaired"
    /\ r_response.validation_info = r_validation_info

C7_WorkingCopyIsRepaired ==
    (PassedValidation /\ r_validation_info.repair_attempted
        /\ r_validation_info.repair_successful) =>
        /\ WorkingCopy = r_validation_info.repaired_buffer
        /\ r_pc \in {"saved", "parsed", "deliver", "responded"} =>
              r_tmp = r_validation_info.repaired_buffer
        /\ (Responded /\ ~r_should_split) =>
              r_response.files[1].body = r_validation_info.repaired_buffer

(***************************************************************************)
(* Claims about the validator's faults and reports (SpecValidator).        *)
(***************************************************************************)
\* inspecting the page raises: reading its box, or, once a box is there,
\* reading its dimensions or its rotation
PageInspectionRaises(page) ==
    \/ page.fault = "mediabox"
    \/ page.fault \in {"dimensions", "rotation"} /\ page.mediabox # None

\* validating the document meets an internal fault: it cannot be opened, or
\* it has pages and inspecting one of them or reading its docinfo raises
FaultMet(doc) ==
    \/ ~doc.openable
    \/ /\ Len(doc.pages) > 0
       /\ \/ doc.docinfo_fault
          \/ \E i \in 1..Len(doc.pages) : PageInspectionRaises(doc.pages[i])

\* C11: whenever validate_pdf_structure met an internal fault (the document
\* cannot be opened, inspecting a page raised, reading the docinfo raised),
\* it returned without raising, with at least one issue and the verdict
\* invalid.
C11_FaultsForceInvalid ==
    (v_pc = "done" /\ FaultMet(v_buffer)) =>
        /\ Len(v_result.issues) >= 1
        /\ ~v_result.is_valid

\* C12 as stated: in the report of comprehensive_validation, needs_repair is
\* true exactly when the report's is_valid is false and its issue list is
\* non-empty, also after a repair attempt.
C12_NeedsRepairMatchesReport ==
    v_pc = "reported" =>
        (v_report.needs_repair <=>
            (~v_report.is_valid /\ Len(v_report.issues) > 0))

\* C12, amended: needs_repair is fixed by the first validation pass: it is
\* true exactly when that pass found the document invalid with a non-empty
\* issue list. It matches the report's own is_valid and issues whenever no
\* repair succeeded; after a successful repair is_valid and issues are those
\* of the repaired document and needs_repair stays true.
C12_NeedsRepairIsFirstPass ==
    v_pc = "reported" =>
        /\ v_report.needs_repair <=>
              (~validate_pdf_structure(v_buffer).is_valid
               /\ Len(validate_pdf_structure(v_buffer).issues) > 0)
        /\ ~v_report.repair_successful =>
              (v_report.needs_repair <=>
                  (~v_report.is_valid /\ Len(v_report.issues) > 0))
        /\ v_report.repair_successful => v_report.needs_repair

\* a page without a box was repaired: the report is valid and needs_repair true
C12_Witness ==
    /\ v_pc = "reported"
    /\ v_report.repair_attempted
    /\ v_report.repair_successful
    /\ v_report.is_valid
    /\ Len(v_report.issues) = 0
    /\ v_report.needs_repair

(***************************************************************************)
(* Claims about the parts split_pdf assembles (SpecSplit).                 *)
(***************************************************************************)
\* the part split_pdf assembles and saves for ranges[i], before validation
Assembled(i) == AssemblePart(s_pdf, s_ranges, i, OrigBasename, XmpFails(s_fault))

\* the source pages [start, end) of a range, in source order
SourcePages(range) == [k \in 1..(range[2] - range[1]) |-> s_pdf.pages[range[1] + k]]

\* C13: every part assembled holds exactly the source pages [start, end) of
\* its range, in source order, whether or not the metadata copy and the
\* keywords injection fail; the pages of the assembled parts, and of the
\* parts returned, taken in part order are the source pages in source order.
C13_PartsHoldTheirPages ==
    RangesBuilt =>
        /\ \A i \in 1..Len(s_ranges) : Assembled(i).pages = SourcePages(s_ranges[i])
        /\ Concat([i \in 1..Len(s_ranges) |-> Assembled(i).pages]) = s_pdf.pages
        /\ s_pc = "returned" =>
              Concat([i \in 1..Len(s_output_parts) |->
                         PageIds(s_output_parts[i].buffer)]) = PageIds(s_pdf)

\* four pages split at 3 while docinfo and open_metadata both raise: two
\* parts without metadata and without marker, holding pages 1-2 and 3-4
C13_Witness ==
    /\ s_pc = "returned"
    /\ s_fault = "both"
    /\ NumPages = 4
    /\ s_split_pages = <<3>>
    /\ Len(s_output_parts) = 2
    /\ PageIds(s_output_parts[1].buffer) = <<1, 2>>
    /\ PageIds(s_output_parts[2].buffer) = <<3, 4>>
    /\ s_output_parts[2].buffer.docinfo = <<>>
    /\ s_output_parts[2].buffer.xmp_keywords = <<>>

\* C14: the docinfo of every part put into output_parts holds only string
\* values of at most 1000 characters: a non-string field and an over-long
\* string field of the source are left out.
C14_MetadataCopyIsCapped ==
    \A i \in 1..Len(s_output_parts) :
        \A k \in 1..Len(s_output_parts[i].buffer.docinfo) :
            /\ s_output_parts[i].buffer.docinfo[k].value.is_str
            /\ s_output_parts[i].buffer.docinfo[k].value.len <= 1000

\* the marker of part i of k for the stem of input_path
Marker(i, k) == <<"Split-Of=", OrigBasename, "#part", ToString(i), "/", ToString(k)>>

\* the keywords part i of k must carry given the ones it had
ExpectedKeywords(existing, i, k) ==
    IF existing = <<>> THEN Marker(i, k) ELSE existing \o <<"; ">> \o Marker(i, k)

BadSplitPoints ==
    \/ SplitPointSet = {}
    \/ \E p \in SplitPointSet : p < 1
    \/ \E p \in SplitPointSet : p > NumPages

\* split_pdf raised before any range was built
PlannerFailed == s_pc = "raised" /\ s_idx = 0

\* C18: on a source that opens, split_pdf raises while planning exactly when
\* the split-point list is empty, or its minimum is < 1, or its maximum is
\* > the page count, and then no range is built and no part produced; for
\* every other list the ranges are built.
C18_PlannerFailsOnBadPoints ==
    (s_pc \notin {"idle", "open"} /\ s_pdf.openable) =>
        /\ PlannerFailed <=> BadSplitPoints
        /\ PlannerFailed => (s_ranges = <<>> /\ s_output_parts = <<>>)
        /\ ~BadSplitPoints => (RangesBuilt /\ Len(s_ranges) >= 1)

\* three pages with the points <<2, 4>>: the maximum is one past the last page
C18_Witness ==
    /\ s_pc = "raised"
    /\ s_idx = 0
    /\ NumPages = 3
    /\ s_split_pages = <<2, 4>>
    /\ s_output_parts = <<>>

(***************************************************************************)
(* Claims about repair_pdf (SpecValidator).                                *)
(***************************************************************************)
\* the positions at which the document holds the source page with this id
PositionsOf(doc, id) == {j \in 1..Len(doc.pages) : doc.pages[j].id = id}

\* some note names source page i
NoteNamesPage(notes, i) ==
    \E k \in 1..Len(notes) : SubSeq(notes[k], 1, 2) = <<"Page", PageNo(i)>>

\* C16: when repair_pdf succeeds on a document in which page i has no
\* mediabox, the repaired document holds that page with the box
\* (0, 0, 595, 842), a repair note names page i, and validating the repaired
\* document reports no "no mediabox" issue for that page.
C16_MissingBoxRepaired ==
    (v_pc = "repaired" /\ v_repair.success) =>
        \A i \in 1..Len(v_buffer.pages) :
            LacksBox(v_buffer.pages[i]) =>
                /\ PositionsOf(v_repair.buffer, i) # {}
                /\ NoteNamesPage(v_repair.notes, i)
                /\ \A j \in PositionsOf(v_repair.buffer, i) :
                      /\ v_repair.buffer.pages[j].mediabox = A4
                      /\ ~IssueNamesPage(validate_pdf_structure(v_repair.buffer).issues,
                                         j, <<"no", "mediabox">>)

\* the fault repair_pdf cannot recover from: the source does not open, or
\* the reconstruction cannot be saved
Unrecoverable(doc) == ~doc.openable \/ doc.save_fault

\* C17: when the source cannot be opened or the reconstruction cannot be
\* saved, repair_pdf returns (it does not raise) success = false with the
\* buffer it was given, unchanged and at position 0, and a note list whose
\* last note is "Repair failed: ..."; otherwise it returns success = true.
C17_RepairFailureReturnsOriginal ==
    v_pc = "repaired" =>
        /\ v_repair.success <=> ~Unrecoverable(v_buffer)
        /\ Unrecoverable(v_buffer) =>
              /\ v_repair.buffer = v_buffer
              /\ v_repair.position = 0
              /\ Len(v_repair.notes) >= 1
              /\ Contains(v_repair.notes[Len(v_repair.notes)], <<"Repair", "failed">>)

\* the source does not open: the one note is the failure
C17_Witness ==
    /\ v_pc = "repaired"
    /\ ~v_buffer.openable
    /\ ~v_repair.success
    /\ v_repair.buffer = v_buffer
    /\ v_repair.notes = <<RepairFailedMsg>>

(***************************************************************************)
(* Claims about the temp file of a request (SpecLive).                     *)
(***************************************************************************)
\* the request has written its temp file and not yet removed it
TempFilePresent == r_tmp # NoBuffer

\* C19: the temp file a request writes is removed by that request: whenever
\* the file is present it is eventually gone, on the path that delivers
\* parts, on the path that delivers the working copy unsplit and on both
\* exits of /v1/validate-pdf; a request that has the file when it answers
\* has scheduled its removal, and no finished request still has it.
C19_TempFileReleased ==
    /\ [](r_pc = "done" => ~TempFilePresent)
    /\ []((r_pc = "responded" /\ TempFilePresent) => Len(r_bg_tasks) >= 1)
    /\ (TempFilePresent ~> ~TempFilePresent)

\* a split request answers 200 with its temp file still on disk
C19_Witness ==
    /\ r_pc = "responded"
    /\ r_endpoint = "split"
    /\ r_should_split
    /\ TempFilePresent
    /\ r_response.status = 200

(***************************************************************************)
(* Claims about cleanup_temp_files (SpecSweeper).                          *)
(***************************************************************************)
\* the run of cleanup_temp_files is over
Finished == c_pc \in {"created", "done"}

\* the directory was missing when the run began
WasMissing == c_pc = "created" \/ c_fault = "makedirs"

StillPresent(entry) == entry.name \in c_present

MaxRequests == 2
MaxTicks == 3

\* the time between two observations of the clock: half the retention window
TickSeconds == (RETENTION_MIN * 60) \div 2

StartClock == 2 * RETENTION_MIN * 60

\* sweeper.py 21-47: the directory after cleanup_temp_files at time now
SweepDir(dir, now) == {f \in dir : ~IsOld(f.mtime, Cutoff(now))}

\* files left behind before startup (owner 0): older than the cutoff, exactly
\* at it, and new
OrphanFiles ==
    { [owner |-> 0, mtime |-> Cutoff(StartClock) + d] : d \in {-1, 0, TickSeconds} }

\* split.py 187-189: the temp file of request q, written at its `written`
TempFileOf(q) == [owner |-> q, mtime |-> a_req[q].written]

InitService ==
    /\ a_clock = StartClock
    /\ a_startup = "pending"
    /\ a_dir \in SUBSET OrphanFiles
    /\ a_req = [q \in 1..MaxRequests |->
                  [pc |-> "none", written |-> 0, found |-> FALSE]]
    /\ ValidatorIdle
    /\ SplitIdle
    /\ RequestIdle
    /\ SweeperIdle
    /\ SchemaIdle

\* main.py 26-28, sweeper.py 57-59: the task created at startup runs
\* cleanup_temp_files once and ends
StartupSweep ==
    /\ a_startup = "pending"
    /\ a_startup' = "done"
    /\ a_dir' = SweepDir(a_dir, a_clock)
    /\ UNCHANGED <<a_clock, a_req, vvars, svars, rvars, cvars, qvars>>

\* time passes
Tick ==
    /\ a_clock < StartClock + MaxTicks * TickSeconds
    /\ a_clock' = a_clock + TickSeconds
    /\ UNCHANGED <<a_startup, a_dir, a_req, vvars, svars, rvars, cvars, qvars>>

\* split.py 186-189: request q writes its temp file
ReqSaveTemp(q) ==
    /\ a_req[q].pc = "none"
    /\ a_req' = [a_req EXCEPT ![q].pc = "saved", ![q].written = a_clock]
    /\ a_dir' = a_dir \cup {[owner |-> q, mtime |-> a_clock]}
    /\ UNCHANGED <<a_clock, a_startup, vvars, svars, rvars, cvars, qvars>>

\* split.py 216, 257: the range check and split_pdf open the file at tmp_path
ReqSplit(q) ==
    /\ a_req[q].pc = "saved"
    /\ a_req' = [a_req EXCEPT ![q].pc = "split",
                              ![q].found = TempFileOf(q) \in a_dir]
    /\ UNCHANGED <<a_clock, a_startup, a_dir, vvars, svars, rvars, cvars, qvars>>

\* split.py 285, 304: cleanup_temp_files() inside the request
ReqSweep(q) ==
    /\ a_req[q].pc = "split"
    /\ a_req' = [a_req EXCEPT ![q].pc = "swept"]
    /\ a_dir' = SweepDir(a_dir, a_clock)
    /\ UNCHANGED <<a_clock, a_startup, vvars, svars, rvars, cvars, qvars>>

\* split.py 272, 325: the background task os.remove(tmp_path)
ReqRemove(q) ==
    /\ a_req[q].pc = "swept"
    /\ a_req' = [a_req EXCEPT ![q].pc = "done"]
    /\ a_dir' = a_dir \ {TempFileOf(q)}
    /\ UNCHANGED <<a_clock, a_startup, vvars, svars, rvars, cvars, qvars>>

\* the handler of a request that has arrived goes on
ReqHandle(q) == ReqSplit(q) \/ ReqSweep(q) \/ ReqRemove(q)

NextService ==
    \/ StartupSweep
    \/ Tick
    \/ \E q \in 1..MaxRequests : ReqSaveTemp(q)
    \/ \E q \in 1..MaxRequests : ReqSplit(q)
    \/ \E q \in 1..MaxRequests : ReqSweep(q)
    \/ \E q \in 1..MaxRequests : ReqRemove(q)

SpecService == InitService /\ [][NextService]_vars

\* the startup task runs, time passes and a handler that has begun is run to
\* its end; nothing makes a request arrive
SpecServiceLive ==
    /\ InitService /\ [][NextService]_vars
    /\ WF_vars(StartupSweep)
    /\ WF_vars(Tick)
    /\ \A q \in 1..MaxRequests : WF_vars(ReqHandle(q))

(***************************************************************************)
(* Claims about the sweep in the running service.                          *)
(***************************************************************************)
\* an orphaned file that is in the directory and older than the retention
\* window
OldOrphanPresent(f) == f \in a_dir /\ IsOld(f.mtime, Cutoff(a_clock))

\* C21: an orphaned temp file older than the retention window is eventually
\* deleted, whether or not a request ever arrives after startup.
C21_OldOrphanEventuallyDeleted ==
    \A f \in OrphanFiles : OldOrphanPresent(f) ~> (f \notin a_dir)

(***************************************************************************)
(* SpecSchema: constructing the request models (schemas/split.py).         *)
(***************************************************************************)
MaxSchemaLen == 3
MaxSchemaPage == 3

\* schemas/split.py 9-14, accepting page 0
PageSplitFromZero(page) ==
    IF page < 0
    THEN [raised |-> TRUE, page |-> 0]
    ELSE [raised |-> FALSE, page |-> page]

\* schemas/split.py 6-14: PageSplit(page=page), page an int
PageSplit(page) ==
    IF page < 1
    THEN [raised |-> TRUE, page |-> 0]
    ELSE [raised |-> FALSE, page |-> page]

\* schemas/split.py 17-25: SplitRequest(pages=[{"page": p}, ...]); the items
\* are constructed first, then validate_pages_list runs
SplitRequest(pages) ==
    IF \E k \in 1..Len(pages) : PageSplit(pages[k]).raised
    THEN [raised |-> TRUE, pages |-> <<>>]
    ELSE IF Len(pages) = 0 \/ Len(pages) < 1
    THEN [raised |-> TRUE, pages |-> <<>>]
    ELSE [raised |-> FALSE,
          pages |-> [k \in 1..Len(pages) |-> PageSplit(pages[k])]]

SchemaPages == (0 - 1)..MaxSchemaPage

InitSchema ==
    /\ q_pc = "start"
    /\ q_input \in
           { [class |-> "PageSplit", page |-> v, pages |-> <<>>] : v \in SchemaPages }
           \cup { [class |-> "SplitRequest", page |-> 0, pages |-> ps] :
                    ps \in SeqsUpTo(SchemaPages, MaxSchemaLen) }
    /\ q_result = <<>>
    /\ ValidatorIdle
    /\ SplitIdle
    /\ RequestIdle
    /\ SweeperIdle
    /\ ServiceIdle

\* schemas/split.py 6-14
ConstructPageSplit ==
    /\ q_pc = "start"
    /\ q_input.class = "PageSplit"
    /\ q_result' = PageSplit(q_input.page)
    /\ q_pc' = "done"
    /\ UNCHANGED <<q_input, vvars, svars, rvars, cvars, avars>>

\* schemas/split.py 17-25
ConstructSplitRequest ==
    /\ q_pc = "start"
    /\ q_input.class = "SplitRequest"
    /\ q_result' = SplitRequest(q_input.pages)
    /\ q_pc' = "done"
    /\ UNCHANGED <<q_input, vvars, svars, rvars, cvars, avars>>

NextSchema == ConstructPageSplit \/ ConstructSplitRequest

SpecSchema == InitSchema /\ [][NextSchema]_vars

(***************************************************************************)
(* Claims about the request models (SpecSchema).                           *)
(***************************************************************************)
\* the page numbers held by a constructed SplitRequest, in its order
PagesOf(request) == [k \in 1..Len(request.pages) |-> request.pages[k].page]

\* C22: PageSplit(page) raises exactly when page < 1 and otherwise holds the
\* page given; SplitRequest raises for the empty list (and for a list holding
\* a page < 1, whose PageSplit raises), and for every non-empty list of pages
\* >= 1 it holds those pages in the order given, duplicates included.
C22_SchemaAcceptsPositivePages ==
    q_pc = "done" =>
        IF q_input.class = "PageSplit"
        THEN /\ q_result.raised <=> q_input.page < 1
             /\ ~q_result.raised => q_result.page = q_input.page
        ELSE /\ q_result.raised <=>
                    \/ q_input.pages = <<>>
                    \/ \E k \in 1..Len(q_input.pages) : q_input.pages[k] < 1
             /\ ~q_result.raised => PagesOf(q_result) = q_input.pages

\* a list out of order with a duplicate is kept as given
C22_Witness ==
    /\ q_pc = "done"
    /\ q_input.class = "SplitRequest"
    /\ q_input.pages = <<2, 1, 2>>
    /\ ~q_result.raised
    /\ PagesOf(q_result) = <<2, 1, 2>>

(***************************************************************************)
(* Further claims about repair_pdf and comprehensive_validation            *)
(* (SpecValidator).                                                        *)
(***************************************************************************)
\* the primary copy of the page (validator.py 147-156) raises
PrimaryCopyFails(page) == page.copy_fault # "none" \/ page.fault = "mediabox"

\* the fallback copy (validator.py 161) raises as well
FallbackCopyFails(page) == page.copy_fault = "both"

\* some note names source page i and contains the words kw
NoteOnPage(notes, i, kw) ==
    \E k \in 1..Len(notes) :
        /\ SubSeq(notes[k], 1, 2) = <<"Page", PageNo(i)>>
        /\ Contains(notes[k], kw)

\* C23: when the source opens and the reconstruction can be saved, repair_pdf
\* reports success whatever happened to single pages; a page whose primary
\* copy fails and whose fallback copy works is in the result with a note
\* "Used fallback copy method" naming its index; a page whose fallback fails
\* too is left out with a note "Could not repair, skipping" naming its index;
\* the pages of the result are the source pages not skipped, in source order.
C23_BadPageDoesNotAbortRepair ==
    (v_pc = "repaired" /\ ~Unrecoverable(v_buffer)) =>
        /\ v_repair.success
        /\ PageIds(v_repair.buffer) =
               PageIds([pages |-> SelectSeq(v_buffer.pages,
                                            LAMBDA pg : ~FallbackCopyFails(pg))])
        /\ \A i \in 1..Len(v_buffer.pages) :
              /\ (PrimaryCopyFails(v_buffer.pages[i])
                     /\ ~FallbackCopyFails(v_buffer.pages[i]))
                  => NoteOnPage(v_repair.notes, i, <<"Used", "fallback">>)
              /\ FallbackCopyFails(v_buffer.pages[i])
                  => NoteOnPage(v_repair.notes, i, <<"Could", "not", "repair">>)

\* the first page is skipped, the second goes through the fallback copy and
\* is the only page of the result
C23_Witness ==
    /\ v_pc = "repaired"
    /\ Len(v_buffer.pages) = 2
    /\ FallbackCopyFails(v_buffer.pages[1])
    /\ PrimaryCopyFails(v_buffer.pages[2]) /\ ~FallbackCopyFails(v_buffer.pages[2])
    /\ v_repair.success
    /\ PageIds(v_repair.buffer) = <<2>>
    /\ Len(v_repair.notes) = 2

\* comprehensive_validation has returned
Reported == v_pc \in {"reported", "reported_only"}

\* it was called with include_repair=True
RepairRequested == v_pc = "reported"

\* the verdict of validating the document as it was given
FirstPass == validate_pdf_structure(v_buffer)

\* C24: in the report of comprehensive_validation, repair_attempted holds
\* exactly when the first validation is invalid with at least one issue and
\* repair was requested; for a valid document repair_attempted and
\* repair_successful are false and there is no repaired buffer; the repaired
\* buffer is attached exactly when repair_successful; after a successful
\* repair is_valid, issues and file_size_bytes are those of validating the
\* repaired buffer, and otherwise those of the first validation.
C24_RepairOnlyWhenNeeded ==
    Reported =>
        /\ v_report.repair_attempted <=>
               (~FirstPass.is_valid /\ Len(FirstPass.issues) >= 1 /\ RepairRequested)
        /\ FirstPass.is_valid =>
               /\ ~v_report.repair_attempted
               /\ ~v_report.repair_successful
               /\ v_report.repaired_buffer = NoBuffer
        /\ v_report.repair_successful <=> v_report.repaired_buffer # NoBuffer
        /\ v_report.repair_successful => v_report.repair_attempted
        /\ IF v_report.repair_successful
           THEN /\ v_report.is_valid =
                      validate_pdf_structure(v_report.repaired_buffer).is_valid
                /\ v_report.issues =
                      validate_pdf_structure(v_report.repaired_buffer).issues
                /\ v_report.file_size_bytes = ByteSize(v_report.repaired_buffer)
           ELSE /\ v_report.is_valid = FirstPass.is_valid
                /\ v_report.issues = FirstPass.issues
                /\ v_report.file_size_bytes = ByteSize(v_buffer)

\* an invalid document is repaired and the report carries the verdict of the
\* repaired buffer, which differs from the first
C24_Witness ==
    /\ v_pc = "reported"
    /\ ~FirstPass.is_valid
    /\ v_report.repair_successful
    /\ v_report.repaired_buffer # NoBuffer
    /\ v_report.is_valid
    /\ v_report.issues # FirstPass.issues

(***************************************************************************)
(* C25: the ladder of one part (splitter.py 112-148).                      *)
(***************************************************************************)
\* splitter.py 118-148: part is what the ladder yields for the assembled
\* buffer buf, given the results first and final of its two validations
OnLadder(part, buf, first, final) ==
    /\ part.outcome \in {"validated", "fallback", "degraded"}
    /\ part.outcome = "validated" <=> first.is_valid
    /\ part.outcome = "fallback" <=> (~first.is_valid /\ final.is_valid)
    /\ part.outcome = "degraded" <=> (~first.is_valid /\ ~final.is_valid)
    /\ part.outcome = "validated" => part.buffer = first.buffer
    /\ part.outcome = "fallback" => part.buffer = final.buffer
    /\ part.outcome = "degraded" => part.buffer = buf

EveryPartOnLadder ==
    \A i \in 1..Len(s_output_parts) :
        \A buf \in {Assembled(i)} :
            \A first \in {validate_and_repair_pdf(buf)} :
                \A final \in {validate_and_repair_pdf(FallbackPart(s_pdf, s_ranges[i]))} :
                    /\ s_output_parts[i].range = s_ranges[i]
                    /\ OnLadder(s_output_parts[i], buf, first, final)

\* splitter.py 84-150: a step that touches output_parts finishes exactly the
\* part the loop is at, leaves the finished parts as they are and moves on
OnePartAtATime ==
    s_output_parts' # s_output_parts =>
        /\ s_pc = "assemble"
        /\ Len(s_output_parts) = s_idx - 1
        /\ Len(s_output_parts') = s_idx
        /\ SubSeq(s_output_parts', 1, s_idx - 1) = s_output_parts
        /\ s_idx' = s_idx + 1

\* C25: every part ends in exactly one terminal outcome: the validated
\* (possibly repaired) buffer when the assembled part passes validate-and-
\* repair, else the validated buffer of the pages-only re-copy of the same
\* range when that passes, else the assembled buffer, degraded; each part
\* reaches its outcome before the next part is assembled and keeps it.
C25_PartLadder == [](EveryPartOnLadder) /\ [][OnePartAtATime]_vars

\* a finished split with a part delivered from the second rung: the
\* pages-only re-copy, not the assembled buffer
C25_Witness ==
    /\ s_pc = "returned"
    /\ Len(s_output_parts) >= 2
    /\ \E i \in 1..Len(s_output_parts) :
          /\ s_output_parts[i].outcome = "fallback"
          /\ s_output_parts[i].buffer = FallbackPart(s_pdf, s_ranges[i])
          /\ s_output_parts[i].buffer # Assembled(i)

(***************************************************************************)
(* C26: which inputs get past the validity check (split.py 160-184).       *)
(***************************************************************************)
\* validator.py 254-259: the verdict the report ends with, that of the
\* repaired document when the repair completed
FinalVerdictValid == Get(r_validation_info, "is_valid", FALSE)

\* the repair of the upload completed and the repaired document still fails
RepairedButStillInvalid ==
    /\ Get(r_validation_info, "repair_successful", FALSE)
    /\ ~FinalVerdictValid

\* C26: the temp file, the reading of the split points, split_pdf and the
\* delivery are reached only by a request whose validation report ends with
\* the verdict valid; an upload whose repair completed but whose repaired
\* version still fails validation is never split or delivered.
C26_OnlyValidInputProceeds == PassedValidation => FinalVerdictValid

(***************************************************************************)
(* C27: a request past the validity check ends in a delivery               *)
(* (split.py 252-332, 452-544).                                            *)
(***************************************************************************)
\* split.py 255-264, 455-464: split_pdf was called and raised
SplitAbandoned == r_splitter_ran /\ ~r_should_split

\* splitter.py 69-82: the ranges split_pdf plans for the working copy
PlannedRanges == Ranges(Len(WorkingCopy.pages), r_split_pages)

\* split.py 266-292, 466-502: the response is the working copy, unsplit
WorkingCopyDelivered ==
    /\ r_response.status = 200
    /\ Len(r_response.files) = 1
    /\ r_response.files[1].filename = Filename
    /\ r_response.files[1].body = WorkingCopy

\* split.py 294-332, 504-544: the response has one file per planned range
WholeSplitDelivered ==
    /\ r_response.status = 200
    /\ Len(r_response.files) = Len(PlannedRanges)
    /\ Len(r_parts) = Len(PlannedRanges)
    /\ \A i \in 1..Len(r_parts) :
          /\ r_parts[i].range = PlannedRanges[i]
          /\ r_response.files[i].filename = PartFilename(Stem, i)

DeliveredWholeOrUnsplit ==
    (PassedValidation /\ Responded) =>
        IF r_should_split THEN WholeSplitDelivered ELSE WorkingCopyDelivered

\* C27: once the input passed validation the request ends in a delivery and
\* never in an error; when split_pdf raises the working copy is delivered
\* unsplit; a response holds either every planned part or the working copy
\* alone, never some of the planned parts.
C27_AlwaysDelivers ==
    /\ [](DeliveredWholeOrUnsplit)
    /\ []((Responded /\ SplitAbandoned) => WorkingCopyDelivered)
    /\ (PassedValidation ~> (Responded /\ r_response.status = 200))

\* split_pdf raised on the second of its parts and the request answered
\* with the working copy alone
C27_Witness ==
    /\ r_pc = "responded"
    /\ r_fault = "save"
    /\ SplitAbandoned
    /\ Len(PlannedRanges) >= 2
    /\ WorkingCopyDelivered

(***************************************************************************)
(* C28: the part bodies of the two endpoints (split.py 311-321, 516-527).  *)
(***************************************************************************)
\* the request was answered with the parts of a split
PartsDelivered == Responded /\ r_should_split /\ r_response.status = 200

\* C28: for the same upload and split points /v1/split and
\* /v1/split-into-zip deliver the same part contents: the body of every
\* delivered part is the whole serialized part, read from byte 0, wherever
\* validation left the read position of the part's buffer.
C28_PartBodiesFromStart ==
    PartsDelivered =>
        \A i \in 1..Len(r_response.files) :
            /\ r_response.files[i].body = r_parts[i].buffer
            /\ r_response.files[i].from = "start"

(***************************************************************************)
(* C29: provenance of the delivered buffers (splitter.py 99-148).          *)
(***************************************************************************)
\* the keywords of the buffer hold the marker of part i of this run
CarriesMarker(buffer, i) ==
    Contains(buffer.xmp_keywords, Marker(i, Len(s_ranges)))

\* the buffer has the keywords and the docinfo part i was assembled with
KeepsProvenance(buffer, i) ==
    /\ CarriesMarker(buffer, i)
    /\ buffer.xmp_keywords = Assembled(i).xmp_keywords
    /\ buffer.docinfo = Assembled(i).docinfo

\* C29: when the injection of the marker did not raise while a part was
\* assembled, the buffer delivered for that part carries its Split-Of marker
\* and the copied metadata, whichever rung of the ladder produced it.
C29_DeliveredKeepsProvenance ==
    ~XmpFails(s_fault) =>
        \A i \in 1..Len(s_output_parts) :
            /\ CarriesMarker(Assembled(i), i)
            /\ KeepsProvenance(s_output_parts[i].buffer, i)

(***************************************************************************)
(* C30: the sweep and the temp files of requests in flight                 *)
(* (sweeper.py 21-41, split.py 186-285).                                   *)
(***************************************************************************)
\* split.py 187-257: request q has written its temp file and not yet opened
\* it for the split
InFlight(q) == a_req[q].pc = "saved"

\* split.py 216, 257: request q has opened, or tried to open, its temp file
PastSplit(q) == a_req[q].pc \in {"split", "swept", "done"}

====
